---------------------------- MODULE Spec2Model ----------------------------
(***************************************************************************)
(* Move generation and scoring engine of sbaumruk/scrabble (go/common.go,  *)
(* the game loop and the solver helpers).  Bytes are their ASCII codes:    *)
(* 0 is an empty cell, 65..90 a normal tile, 97..122 a blank played as a   *)
(* letter, 42 the blank symbol of a rack.  board[x][y] is column-major as  *)
(* in the source.                                                          *)
(***************************************************************************)
EXTENDS Integers, Sequences, FiniteSets, TLC

\* board: the 15x15 cells; rack, topn: the rack and n of the last request;
\* found: the moves of that request before the sort (history); moves: the
\* list returned; fresh: moves answers the current board; steps: changes of
\* the board so far; booted: loadRuleset has run; the rest are the
\* process-wide scoring tables; source: the lines of the dictionary file;
\* lexicon: the word-set and the trie loaded from it; oppWord, placements:
\* the word of the last opponent request and the list returned for it; work:
\* the working rack as the last search left it and whether every call of
\* searchPlay gave it back as it got it (history); prev, last: the
\* board before the latest applyMove and the move it applied (history);
\* fault: the last request ended in an index out of range; ruleset: the
\* definition loadRuleset passed to applyRuleset, as a sequence of at most
\* one definition (history); game: the AI game of runGame: bag, racks,
\* scores and the position of its loops
VARIABLES board, rack, found, moves, topn, fresh, steps, booted,
          tilePoints, bingoBonus, tw, dw, tl, dl, source, lexicon,
          oppWord, placements, work, prev, last, fault, ruleset, game, share

vars == <<board, rack, found, moves, topn, fresh, steps, booted,
          tilePoints, bingoBonus, tw, dw, tl, dl, source, lexicon,
          oppWord, placements, work, prev, last, fault, ruleset, game, share>>

(***************************************************************************)
(* Bounds of the model.                                                    *)
(***************************************************************************)
MaxSteps == 2

(***************************************************************************)
(* Program constants.                                                      *)
(***************************************************************************)
Size == 15
Last == 14
Center == 7
Star == 42
CaseBit == 32
ChA == 65
ChZ == 90
DIR_VERT == 0
DIR_HORIZ == 1
DefaultBingo == 40
BingoLen == 7
ServerTopN == 20

Coord == 0..Last
Upper == ChA..ChZ
Lower == (ChA + CaseBit)..(ChZ + CaseBit)

\* TLC evaluates an operator's argument where it is first used, which nests
\* the iterations of a loop; a loop tests Evaluated of a field of its
\* accumulator, which is TRUE, at its head so that the accumulator is a value
\* before the next iteration starts; the loops of the search test the result
\* of their body against itself for the same reason
Evaluated(v) == v = v

\* b &^ 32 on a byte
AndNot32(b) == IF (b \div CaseBit) % 2 = 1 THEN b - CaseBit ELSE b

cti(x, y) == y * Size + x

\* strings.ToUpper on an ASCII string
ToUpper(s) == [i \in 1..Len(s) |-> IF s[i] \in Lower THEN s[i] - CaseBit ELSE s[i]]

(***************************************************************************)
(* 64-bit FNV-1a, as four 16-bit limbs (least significant first).          *)
(***************************************************************************)
Limb == 2^16
FnvPrimeLow == 435

RECURSIVE Xor(_, _)
Xor(a, b) ==
    IF a = 0 THEN b
    ELSE IF b = 0 THEN a
    ELSE (((a % 2) + (b % 2)) % 2) + 2 * Xor(a \div 2, b \div 2)

\* 0xcbf29ce484222325
NewFNV == <<8997, 33826, 40164, 52210>>

\* h.v *= 0x100000001b3 (mod 2^64): h*435 + (h << 40)
FnvMul(h) ==
    LET p0 == h[1] * FnvPrimeLow
        p1 == h[2] * FnvPrimeLow + (p0 \div Limb)
        p2 == h[3] * FnvPrimeLow + (p1 \div Limb) + (h[1] % 256) * 256
        p3 == h[4] * FnvPrimeLow + (p2 \div Limb) + (h[2] % 256) * 256 + (h[1] \div 256)
    IN  <<p0 % Limb, p1 % Limb, p2 % Limb, p3 % Limb>>

FnvXor(h, c) == <<Xor(h[1], c % Limb), Xor(h[2], c \div Limb), h[3], h[4]>>

\* (h *FNV) Add(b byte)
FnvAdd(h, b) == FnvXor(FnvMul(h), AndNot32(b))

\* (h *FNV) AddString(s string)
RECURSIVE FnvAddStringFrom(_, _, _)
FnvAddStringFrom(h, s, i) ==
    IF i > Len(s) THEN h
    ELSE FnvAddStringFrom(FnvXor(FnvMul(h), s[i]), s, i + 1)

FnvAddString(h, s) == FnvAddStringFrom(h, s, 1)

(***************************************************************************)
(* The dictionary file, one word per line.                                 *)
(***************************************************************************)
DictLines ==
    { <<65, 84>>,                       \* AT
      <<84, 65>>,                       \* TA
      <<69, 65, 84>>,                   \* EAT
      <<84, 65, 84>>,                   \* TAT
      <<69, 83, 84, 65, 84, 69, 83>> }  \* ESTATES

\* loadDictionary: the set of hashes of the lines longer than one byte
loadDictionary(lines) ==
    { FnvAddString(NewFNV, w) : w \in { l \in lines : Len(l) > 1 } }

\* child index of a byte in a trie node
TrieIdx(b) == AndNot32(b) - ChA

RECURSIVE ValidUpTo(_, _)
\* number of leading bytes of word that buildTrie walks before it breaks
ValidUpTo(word, i) ==
    IF i > Len(word) THEN Len(word)
    ELSE IF TrieIdx(word[i]) < 0 \/ TrieIdx(word[i]) >= 26 THEN i - 1
    ELSE ValidUpTo(word, i + 1)

\* buildTrie: a node is the path of child indices that leads to it
buildTrie(lines) ==
    LET long == { l \in lines : Len(l) >= 2 }
        path(w, k) == [i \in 1..k |-> TrieIdx(w[i])]
    IN  [ nodes |-> {<<>>} \cup UNION { { path(w, k) : k \in 1..ValidUpTo(w, 1) } : w \in long },
          ends  |-> { path(w, Len(w)) : w \in { l \in long : ValidUpTo(l, 1) = Len(l) } } ]

wordlist == loadDictionary(DictLines)
trie == buildTrie(DictLines)

NilNode == <<-1>>
TrieRoot == <<>>
Child(node, idx) ==
    IF Append(node, idx) \in trie.nodes THEN Append(node, idx) ELSE NilNode
IsEnd(node) == node \in trie.ends

(***************************************************************************)
(* Default scoring tables (NYT Crossplay).                                 *)
(***************************************************************************)
DefaultTilePoints ==
    LET pts == <<1, 4, 3, 2, 1, 4, 4, 3, 1, 10, 6, 2, 3, 1, 1, 3, 10, 1, 1, 1, 2, 6, 5, 8, 4, 10>>
    IN  [c \in 0..254 |-> IF c \in Upper THEN pts[c - ChA + 1] ELSE 0]
DefaultTW == {3, 11, 45, 59, 165, 179, 213, 221}
DefaultDW == {16, 28, 52, 108, 116, 172, 196, 208}
DefaultTL == {0, 14, 21, 23, 65, 69, 79, 85, 91, 103, 121, 133, 139, 145, 155, 159, 201, 203, 210, 224}
DefaultDL == {7, 34, 40, 48, 56, 62, 72, 82, 105, 110, 114, 119, 142, 152, 162, 168, 176, 184, 190, 217}

EmptyBoard == [x \in Coord |-> [y \in Coord |-> 0]]

(***************************************************************************)
(* checkCenterPlayed, checkContiguous                                      *)
(***************************************************************************)
\* checkCenterPlayed without the test of the row or column of the centre
checkCenterAnyLine(b, x, y, tiles, dir) ==
    IF b[Center][Center] # 0 THEN TRUE
    ELSE IF dir = DIR_VERT THEN y <= Center /\ (y + tiles) > Center
    ELSE x <= Center /\ (x + tiles) > Center

checkCenterPlayed(b, x, y, tiles, dir) ==
    IF b[Center][Center] # 0 THEN TRUE
    ELSE IF dir = DIR_VERT THEN x = Center /\ y <= Center /\ (y + tiles) > Center
    ELSE y = Center /\ x <= Center /\ (x + tiles) > Center

HasNeighbour(b, x, y) ==
    \/ (x > 0 /\ b[x - 1][y] # 0)
    \/ (x < Last /\ b[x + 1][y] # 0)
    \/ (y > 0 /\ b[x][y - 1] # 0)
    \/ (y < Last /\ b[x][y + 1] # 0)

RECURSIVE ContigLoopNoCount(_, _, _, _, _)
\* the loop that never counts a tile down
ContigLoopNoCount(b, x, y, tiles, dir) ==
    IF tiles <= 0 THEN [near |-> FALSE, fault |-> FALSE]
    ELSE IF x > Last \/ y > Last THEN [near |-> FALSE, fault |-> TRUE]
    ELSE IF HasNeighbour(b, x, y) THEN [near |-> TRUE, fault |-> FALSE]
    ELSE IF dir = DIR_VERT THEN ContigLoopNoCount(b, x, y + 1, tiles, dir)
    ELSE ContigLoopNoCount(b, x + 1, y, tiles, dir)

RECURSIVE ContigLoop(_, _, _, _, _)
\* the loop "for i := ...; tiles > 0; i++" of checkContiguous, which has no
\* test of i against the edge: near is the value returned, fault tells that
\* board[x][i] was read with an index beyond 14 (index out of range)
ContigLoop(b, x, y, tiles, dir) ==
    IF tiles <= 0 THEN [near |-> FALSE, fault |-> FALSE]
    ELSE IF x > Last \/ y > Last THEN [near |-> FALSE, fault |-> TRUE]
    ELSE LET t2 == IF b[x][y] = 0 THEN tiles - 1 ELSE tiles
         IN  IF HasNeighbour(b, x, y) THEN [near |-> TRUE, fault |-> FALSE]
             ELSE IF dir = DIR_VERT THEN ContigLoop(b, x, y + 1, t2, dir)
             ELSE ContigLoop(b, x + 1, y, t2, dir)

\* checkContiguous that asks for no neighbour
checkContiguousOff(b, x, y, tiles, dir) == b[Center][Center] = 0 \/ tiles > 0

checkContiguous(b, x, y, tiles, dir) ==
    IF b[Center][Center] = 0 THEN TRUE
    ELSE ContigLoop(b, x, y, tiles, dir).near

\* checkContiguous ends in an index out of range
checkContiguousFaults(b, x, y, tiles, dir) ==
    b[Center][Center] # 0 /\ ContigLoop(b, x, y, tiles, dir).fault

(***************************************************************************)
(* scoreWord, scoreMove.  plays is the scratch array of the tiles of the   *)
(* move being scored, indexed by cti.                                      *)
(***************************************************************************)
\* the cell at distance k from (x, y) along dir
StepX(x, dir, k) == IF dir = DIR_VERT THEN x ELSE x + k
StepY(y, dir, k) == IF dir = DIR_VERT THEN y + k ELSE y
Other(dir) == IF dir = DIR_VERT THEN DIR_HORIZ ELSE DIR_VERT

RECURSIVE WordStart(_, _, _, _, _)
\* the backing-up loop of scoreWord; the result is the offset along dir
WordStart(b, x, y, dir, plays) ==
    LET p == IF dir = DIR_VERT THEN y ELSE x
        px == StepX(x, dir, -1)
        py == StepY(y, dir, -1)
    IN  IF p > 0 /\ (plays[cti(px, py)] # 0 \/ b[px][py] # 0)
        THEN WordStart(b, px, py, dir, plays)
        ELSE p

RECURSIVE WordWalkAllCells(_, _, _, _, _, _, _)
\* the forward loop with the premiums of every cell of the word, new or not
WordWalkAllCells(b, rs, x, y, dir, plays, acc) ==
    IF (IF dir = DIR_VERT THEN y ELSE x) >= Size THEN acc
    ELSE LET idx == cti(x, y)
             tile == IF b[x][y] # 0 THEN b[x][y] ELSE plays[idx]
             face == rs.tilePoints[tile]
             extra == IF idx \in rs.dw \/ idx \in rs.tw THEN 0
                      ELSE IF idx \in rs.dl THEN face
                      ELSE IF idx \in rs.tl THEN face * 2
                      ELSE 0
             mult == IF idx \in rs.dw THEN 2
                     ELSE IF idx \in rs.tw THEN 3
                     ELSE 1
         IN  IF tile = 0 THEN acc
             ELSE WordWalkAllCells(b, rs, StepX(x, dir, 1), StepY(y, dir, 1), dir, plays,
                                   [wordLen |-> acc.wordLen + 1,
                                    points |-> acc.points + face + extra,
                                    wordMult |-> acc.wordMult * mult])

RECURSIVE WordWalk(_, _, _, _, _, _, _)
\* the forward loop of scoreWord; acc = [points, wordMult, wordLen]
WordWalk(b, rs, x, y, dir, plays, acc) ==
    IF (IF dir = DIR_VERT THEN y ELSE x) >= Size THEN acc
    ELSE LET idx == cti(x, y)
             nx == StepX(x, dir, 1)
             ny == StepY(y, dir, 1)
         IN  IF b[x][y] # 0
             THEN WordWalk(b, rs, nx, ny, dir, plays,
                           [acc EXCEPT !.wordLen = @ + 1,
                                       !.points = @ + rs.tilePoints[b[x][y]]])
             ELSE IF plays[idx] # 0
             THEN LET face == rs.tilePoints[plays[idx]]
                      extra == IF idx \in rs.dw \/ idx \in rs.tw THEN 0
                               ELSE IF idx \in rs.dl THEN face
                               ELSE IF idx \in rs.tl THEN face * 2
                               ELSE 0
                      mult == IF idx \in rs.dw THEN 2
                              ELSE IF idx \in rs.tw THEN 3
                              ELSE 1
                  IN  WordWalk(b, rs, nx, ny, dir, plays,
                               [wordLen |-> acc.wordLen + 1,
                                points |-> acc.points + face + extra,
                                wordMult |-> acc.wordMult * mult])
             ELSE acc

scoreWord(b, rs, x, y, dir, plays) ==
    LET s == WordStart(b, x, y, dir, plays)
        sx == IF dir = DIR_VERT THEN x ELSE s
        sy == IF dir = DIR_VERT THEN s ELSE y
        r == WordWalk(b, rs, sx, sy, dir, plays, [points |-> 0, wordMult |-> 1, wordLen |-> 0])
    IN  IF r.wordLen = 1 THEN 0 ELSE r.points * r.wordMult

NoPlays == [i \in 0..(Size * Size - 1) |-> 0]

RECURSIVE MoveLoop(_, _, _, _, _, _, _, _, _)
\* the placing loop of scoreMove: (x, y) is the cell under inspection,
\* the result is [plays, playPoints, fault]; the loop has no test of i
\* against the edge, fault tells that board[x][i] was read beyond 14
MoveLoop(b, rs, x, y, tiles, dir, tilei, plays, playPoints) ==
    IF Len(tiles) <= tilei THEN [plays |-> plays, playPoints |-> playPoints, fault |-> FALSE]
    ELSE IF x > Last \/ y > Last THEN [plays |-> plays, playPoints |-> playPoints, fault |-> TRUE]
    ELSE IF b[x][y] = 0
    THEN LET plays2 == [plays EXCEPT ![cti(x, y)] = tiles[tilei + 1]]
         IN  MoveLoop(b, rs, StepX(x, dir, 1), StepY(y, dir, 1), tiles, dir, tilei + 1, plays2,
                      playPoints + scoreWord(b, rs, x, y, Other(dir), plays2))
    ELSE MoveLoop(b, rs, StepX(x, dir, 1), StepY(y, dir, 1), tiles, dir, tilei, plays, playPoints)

scoreMove(b, rs, x, y, tiles, dir) ==
    LET r == MoveLoop(b, rs, x, y, tiles, dir, 0, NoPlays, 0)
    IN  r.playPoints + scoreWord(b, rs, x, y, dir, r.plays)

\* scoreMove ends in an index out of range
scoreMoveFaults(b, rs, x, y, tiles, dir) ==
    MoveLoop(b, rs, x, y, tiles, dir, 0, NoPlays, 0).fault

(***************************************************************************)
(* getPlaySpace                                                            *)
(***************************************************************************)
RECURSIVE RunBack(_, _, _, _)
\* "for p > 0 && board[previous cell] != 0 { p-- }": offset of the run's start
RunBack(b, x, y, dir) ==
    LET p == IF dir = DIR_VERT THEN y ELSE x
    IN  IF p > 0 /\ b[StepX(x, dir, -1)][StepY(y, dir, -1)] # 0
        THEN RunBack(b, StepX(x, dir, -1), StepY(y, dir, -1), dir)
        ELSE p

RECURSIVE RunFwdShort(_, _, _, _)
\* the forward loop that stops one cell before the last
RunFwdShort(b, x, y, dir) ==
    LET p == IF dir = DIR_VERT THEN y ELSE x
    IN  IF p < Last - 1 /\ b[StepX(x, dir, 1)][StepY(y, dir, 1)] # 0
        THEN RunFwdShort(b, StepX(x, dir, 1), StepY(y, dir, 1), dir)
        ELSE p

RECURSIVE RunFwd(_, _, _, _)
\* "for p < 14 && board[next cell] != 0 { p++ }": offset of the run's end
RunFwd(b, x, y, dir) ==
    LET p == IF dir = DIR_VERT THEN y ELSE x
    IN  IF p < Last /\ b[StepX(x, dir, 1)][StepY(y, dir, 1)] # 0
        THEN RunFwd(b, StepX(x, dir, 1), StepY(y, dir, 1), dir)
        ELSE p

\* the crossPlay of the cell (x, y) of a play along dir; <<>> is the nil slice
CrossPlay(b, x, y, dir) ==
    IF b[x][y] # 0 THEN <<>>
    ELSE LET o == Other(dir)
             p2 == RunBack(b, x, y, o)
             p3 == RunFwd(b, x, y, o)
         IN  IF p2 < p3
             THEN [j \in 1..(p3 - p2 + 1) |->
                      IF o = DIR_VERT THEN b[x][p2 + j - 1] ELSE b[p2 + j - 1][y]]
             ELSE <<>>

getPlaySpace(b, x, y, dir) ==
    LET s == RunBack(b, x, y, dir)
        startX == IF dir = DIR_VERT THEN x ELSE s
        startY == IF dir = DIR_VERT THEN s ELSE y
        play == [i \in 1..(Size - s) |-> b[StepX(startX, dir, i - 1)][StepY(startY, dir, i - 1)]]
    IN  [ startX |-> startX, startY |-> startY,
          play |-> play,
          crossPlays |-> [i \in 1..(Size - s) |->
                             CrossPlay(b, StepX(startX, dir, i - 1), StepY(startY, dir, i - 1), dir)],
          room |-> Cardinality({i \in 1..(Size - s) : play[i] = 0}) ]

(***************************************************************************)
(* recordMove, searchPlay.  The slices the Go code shares between frames   *)
(* are threaded through the recursion: st.moves and st.seen are the        *)
(* caller's move list and key map, st.rack is the array under the working  *)
(* rack (the frame's slice is its first n bytes).  c holds what a search   *)
(* never changes: [b, rs, play, crossPlays, anchorX, anchorY, dir,         *)
(* rackLen], rs being the scoring tables in force.  st.restored is a       *)
(* history field: every recursive call so far gave the array back as it    *)
(* got it.  st.fault tells that a call of checkContiguous or scoreMove     *)
(* ended in an index out of range.                                         *)
(* A BestMove carries one history field, used: the rack tiles that were    *)
(* consumed for its letters, in order.                                     *)
(***************************************************************************)
MoveKey(x, y, dir, placed) == <<x, y, dir, ToUpper(placed)>>

\* recordMove with the bonus for every placement that empties the rack
recordMoveRackOut(st, c, placed, used) ==
    IF ~checkCenterPlayed(c.b, c.anchorX, c.anchorY, Len(placed), c.dir) THEN st
    ELSE IF checkContiguousFaults(c.b, c.anchorX, c.anchorY, Len(placed), c.dir)
         THEN [st EXCEPT !.fault = TRUE]
    ELSE IF ~checkContiguous(c.b, c.anchorX, c.anchorY, Len(placed), c.dir) THEN st
    ELSE IF scoreMoveFaults(c.b, c.rs, c.anchorX, c.anchorY, placed, c.dir)
         THEN [st EXCEPT !.fault = TRUE]
    ELSE LET raw == scoreMove(c.b, c.rs, c.anchorX, c.anchorY, placed, c.dir)
             score == IF Len(placed) = c.rackLen
                      THEN raw + c.rs.bingoBonus ELSE raw
             key == MoveKey(c.anchorX, c.anchorY, c.dir, placed)
         IN  IF key \in st.seen THEN st
             ELSE [st EXCEPT !.seen = @ \cup {key},
                             !.moves = Append(@, [x |-> c.anchorX, y |-> c.anchorY,
                                                  dir |-> c.dir, tiles |-> placed,
                                                  score |-> score, used |-> used])]

recordMove(st, c, placed, used) ==
    IF ~checkCenterPlayed(c.b, c.anchorX, c.anchorY, Len(placed), c.dir) THEN st
    ELSE IF checkContiguousFaults(c.b, c.anchorX, c.anchorY, Len(placed), c.dir)
         THEN [st EXCEPT !.fault = TRUE]
    ELSE IF ~checkContiguous(c.b, c.anchorX, c.anchorY, Len(placed), c.dir) THEN st
    ELSE IF scoreMoveFaults(c.b, c.rs, c.anchorX, c.anchorY, placed, c.dir)
         THEN [st EXCEPT !.fault = TRUE]
    ELSE LET raw == scoreMove(c.b, c.rs, c.anchorX, c.anchorY, placed, c.dir)
             score == IF c.rackLen = BingoLen /\ Len(placed) = BingoLen
                      THEN raw + c.rs.bingoBonus ELSE raw
             key == MoveKey(c.anchorX, c.anchorY, c.dir, placed)
         IN  IF key \in st.seen THEN st
             ELSE [st EXCEPT !.seen = @ \cup {key},
                             !.moves = Append(@, [x |-> c.anchorX, y |-> c.anchorY,
                                                  dir |-> c.dir, tiles |-> placed,
                                                  score |-> score, used |-> used])]

RECURSIVE CrossHash(_, _, _, _)
\* the hash of a crossPlay with letter in its hole
CrossHash(h, cross, letter, i) ==
    IF i > Len(cross) THEN h
    ELSE CrossHash(FnvAdd(h, IF cross[i] = 0 THEN letter ELSE cross[i]), cross, letter, i + 1)

\* the letter itself, whatever tile played it
StoredAsLetter(letter, isWild) == letter

\* the byte stored for a letter played from a rack tile
Stored(letter, isWild) == IF isWild THEN letter + CaseBit ELSE letter

\* rack[i], rack[j] = rack[j], rack[i] on 0-based indices
Swap(r, i, j) == [r EXCEPT ![i + 1] = r[j + 1], ![j + 1] = r[i + 1]]

RECURSIVE searchPlay(_, _, _), RackLoop(_, _, _, _, _), LetterLoop(_, _, _, _, _, _, _)

\* f = [node, playIdx, n, placed, used] is the frame
searchPlay(st, c, f) ==
    LET canStop == f.playIdx >= Len(c.play) \/ c.play[f.playIdx + 1] = 0
        st1 == IF canStop /\ IsEnd(f.node) /\ Len(f.placed) > 0
               THEN recordMove(st, c, f.placed, f.used) ELSE st
    IN  IF Evaluated(st1.rack) /\ (f.playIdx >= Len(c.play) \/ f.n = 0) THEN st1
        ELSE LET curr == c.play[f.playIdx + 1]
             IN  IF curr # 0
                 THEN LET idx == TrieIdx(curr)
                      IN  IF idx >= 0 /\ idx < 26 /\ Child(f.node, idx) # NilNode
                          THEN searchPlay(st1, c, [f EXCEPT !.node = Child(f.node, idx),
                                                            !.playIdx = @ + 1])
                          ELSE st1
                 ELSE RackLoop(st1, c, f, 0, {})

\* "for rackIdx := 0; rackIdx < len(rack); rackIdx++"
RackLoop(st, c, f, rackIdx, tried) ==
    IF rackIdx >= f.n THEN st
    ELSE LET r == LetterLoop(st, c, f, rackIdx, st.rack[rackIdx + 1], ChA, tried)
         IN  IF r.tried = r.tried THEN RackLoop(r.st, c, f, rackIdx + 1, r.tried) ELSE st

\* the letter loop without the cross-word check
SkippedNoCrossCheck(c, f, t, letter, tried) ==
    \/ (t # Star /\ AndNot32(t) # letter)
    \/ letter \in tried
    \/ Child(f.node, letter - ChA) = NilNode

\* the letter loop passes a letter with "continue" when the tile t cannot
\* stand for it, when it was tried in this frame, when the node has no such
\* child, or when the cross-word it would complete is not in the wordlist
Skipped(c, f, t, letter, tried) ==
    \/ (t # Star /\ AndNot32(t) # letter)
    \/ letter \in tried
    \/ Child(f.node, letter - ChA) = NilNode
    \/ /\ c.crossPlays[f.playIdx + 1] # <<>>
       /\ CrossHash(NewFNV, c.crossPlays[f.playIdx + 1], letter, 1) \notin wordlist

\* the letters from..'Z' that the rack tile t can stand for
Standing(t, from) ==
    IF t = Star THEN from..ChZ
    ELSE { l \in {AndNot32(t)} : l >= from /\ l <= ChZ }

\* the letter loop without the swap back after the recursive call
LetterLoopNoSwapBack(st, c, f, rackIdx, t, from, tried) ==
    LET todo == { l \in Standing(t, from) : ~Skipped(c, f, t, l, tried) }
    IN  IF todo = {} THEN [st |-> st, tried |-> tried]
        ELSE LET letter == CHOOSE l \in todo : \A k \in todo : l <= k
                 isWild == t = Star
                 sub == searchPlay(
                            [st EXCEPT !.rack = Swap(@, rackIdx, f.n - 1)], c,
                            [node |-> Child(f.node, letter - ChA),
                             playIdx |-> f.playIdx + 1, n |-> f.n - 1,
                             placed |-> Append(f.placed, Stored(letter, isWild)),
                             used |-> Append(f.used, t)])
             IN  IF sub.rack = sub.rack
                 THEN LetterLoop([sub EXCEPT !.restored = @ /\ sub.rack = Swap(st.rack, rackIdx, f.n - 1)],
                                 c, f, rackIdx, t, letter + 1, tried \cup {letter})
                 ELSE [st |-> st, tried |-> tried]

\* the letter loop that leaves the tile in the working rack of the
\* recursive call
LetterLoopTileKept(st, c, f, rackIdx, t, from, tried) ==
    LET todo == { l \in Standing(t, from) : ~Skipped(c, f, t, l, tried) }
    IN  IF todo = {} THEN [st |-> st, tried |-> tried]
        ELSE LET letter == CHOOSE l \in todo : \A k \in todo : l <= k
                 isWild == t = Star
                 sub == searchPlay(
                            st, c,
                            [node |-> Child(f.node, letter - ChA),
                             playIdx |-> f.playIdx + 1, n |-> f.n,
                             placed |-> Append(f.placed, Stored(letter, isWild)),
                             used |-> Append(f.used, t)])
             IN  IF sub.rack = sub.rack
                 THEN LetterLoop(sub, c, f, rackIdx, t, letter + 1, tried \cup {letter})
                 ELSE [st |-> st, tried |-> tried]

\* "for letter := byte('A'); letter <= 'Z'; letter++" for the rack tile t,
\* from the letter from on: the loop body runs for the first letter that is
\* not skipped, then the loop goes on behind it
LetterLoop(st, c, f, rackIdx, t, from, tried) ==
    LET todo == { l \in Standing(t, from) : ~Skipped(c, f, t, l, tried) }
    IN  IF todo = {} THEN [st |-> st, tried |-> tried]
        ELSE LET letter == CHOOSE l \in todo : \A k \in todo : l <= k
                 isWild == t = Star
                 sub == searchPlay(
                            [st EXCEPT !.rack = Swap(@, rackIdx, f.n - 1)], c,
                            [node |-> Child(f.node, letter - ChA),
                             playIdx |-> f.playIdx + 1, n |-> f.n - 1,
                             placed |-> Append(f.placed, Stored(letter, isWild)),
                             used |-> Append(f.used, t)])
             IN  IF sub.rack = sub.rack
                 THEN LetterLoop([sub EXCEPT !.rack = Swap(@, rackIdx, f.n - 1),
                                             !.restored = @ /\ sub.rack = Swap(st.rack, rackIdx, f.n - 1)],
                                 c, f, rackIdx, t, letter + 1, tried \cup {letter})
                 ELSE [st |-> st, tried |-> tried]

(***************************************************************************)
(* The anchor loop of DoTurn / findTopNMoves.                              *)
(***************************************************************************)
RECURSIVE PreWalk(_, _, _, _)
\* the trie node after play[0..offset), or NilNode
PreWalk(node, play, i, offset) ==
    IF i >= offset THEN node
    ELSE LET idx == TrieIdx(play[i + 1])
         IN  IF idx < 0 \/ idx >= 26 \/ Child(node, idx) = NilNode THEN NilNode
             ELSE PreWalk(Child(node, idx), play, i + 1, offset)

\* the body of the loop for the anchor (x, y) and the direction dir
AnchorStep(st, b, rs, x, y, dir, rackLen) ==
    LET ps == getPlaySpace(b, x, y, dir)
        offset == IF dir = DIR_HORIZ THEN x - ps.startX ELSE y - ps.startY
        node == PreWalk(TrieRoot, ps.play, 0, offset)
    IN  IF ps.room = 0 \/ node = NilNode THEN st
        ELSE LET out == searchPlay(st,
                            [b |-> b, rs |-> rs, play |-> ps.play, crossPlays |-> ps.crossPlays,
                             anchorX |-> x, anchorY |-> y, dir |-> dir, rackLen |-> rackLen],
                            [node |-> node, playIdx |-> offset, n |-> rackLen,
                             placed |-> <<>>, used |-> <<>>])
             IN  [out EXCEPT !.restored = @ /\ out.rack = st.rack]

\* "for _, dir := range []direction{DIR_HORIZ, DIR_VERT}" at the anchor (x, y)
DirLoop(st, b, rs, x, y, rackLen) ==
    AnchorStep(AnchorStep(st, b, rs, x, y, DIR_HORIZ, rackLen), b, rs, x, y, DIR_VERT, rackLen)

RECURSIVE RowLoop(_, _, _, _, _, _)
\* "for y := 0; y < 15; y++" in the column x
RowLoop(st, b, rs, x, y, rackLen) ==
    IF Evaluated(st.rack) /\ y >= Size THEN st
    ELSE IF b[x][y] # 0 THEN RowLoop(st, b, rs, x, y + 1, rackLen)
    ELSE RowLoop(DirLoop(st, b, rs, x, y, rackLen), b, rs, x, y + 1, rackLen)

RECURSIVE ColLoop(_, _, _, _, _)
\* "for x := 0; x < 15; x++"
ColLoop(st, b, rs, x, rackLen) ==
    IF Evaluated(st.rack) /\ x >= Size THEN st
    ELSE ColLoop(RowLoop(st, b, rs, x, 0, rackLen), b, rs, x + 1, rackLen)

\* the state of the search after the anchor loop, for the caller's rack r
Enumerate(b, rs, r) ==
    ColLoop([moves |-> <<>>, seen |-> {}, rack |-> r, restored |-> TRUE, fault |-> FALSE],
            b, rs, 0, Len(r))

(***************************************************************************)
(* sort.Slice(moves, score descending) and the cut to n.  The library     *)
(* sorts up to 12 elements by insertion, which SortMoves computes; on a    *)
(* longer list it leaves equal scores in an order of its own, so only the  *)
(* order of the scores is meaningful there.                                *)
(***************************************************************************)
Less(a, b) == a.score > b.score

RECURSIVE SiftDownCopy(_, _)
\* the inner loop moving data[j-1] up without putting data[j] in its place
SiftDownCopy(s, j) ==
    IF j > 1 /\ Less(s[j], s[j - 1])
    THEN SiftDownCopy([s EXCEPT ![j] = s[j - 1]], j - 1)
    ELSE s

RECURSIVE SiftDown(_, _)
\* "for j := i; j > a && less(data[j], data[j-1]); j-- { swap }"
SiftDown(s, j) ==
    IF j > 1 /\ Less(s[j], s[j - 1])
    THEN SiftDown([s EXCEPT ![j] = s[j - 1], ![j - 1] = s[j]], j - 1)
    ELSE s

RECURSIVE SortFrom(_, _)
SortFrom(s, i) == IF i > Len(s) THEN s ELSE SortFrom(SiftDown(s, i), i + 1)

SortMoves(s) == SortFrom(s, 2)

\* the cut that keeps the last n
TopNTail(s, n) == IF Len(s) > n THEN SubSeq(s, Len(s) - n + 1, Len(s)) ELSE s

TopN(s, n) == IF Len(s) > n THEN SubSeq(s, 1, n) ELSE s

findTopNMoves(b, rs, r, n) == TopN(SortMoves(Enumerate(b, rs, r).moves), n)

RECURSIVE playOver(_, _, _, _, _)
\* the tiles go to the cells from (x, y) along dir, occupied or not
playOver(b, x, y, word, dir) ==
    IF Len(word) = 0 THEN b
    ELSE playOver([b EXCEPT ![x][y] = word[1]], StepX(x, dir, 1), StepY(y, dir, 1), Tail(word), dir)

\* play / applyMove: the tiles go to the empty cells from (x, y) along dir
RECURSIVE play(_, _, _, _, _)
play(b, x, y, word, dir) ==
    IF Len(word) = 0 THEN b
    ELSE IF b[x][y] # 0 THEN play(b, StepX(x, dir, 1), StepY(y, dir, 1), word, dir)
    ELSE play([b EXCEPT ![x][y] = word[1]], StepX(x, dir, 1), StepY(y, dir, 1), Tail(word), dir)

(***************************************************************************)
(* Rulesets: loadRuleset / applyRuleset work on the process-wide tables.   *)
(***************************************************************************)
\* Standard Scrabble values for the letters in play, one key in lowercase,
\* a two-byte key that applyRuleset skips, and a centre double-word square
StandardDef ==
    [ BingoBonus |-> 50,
      LetterPoints |-> { <<<<65>>, 1>>, <<<<101>>, 1>>, <<<<83>>, 1>>, <<<<84>>, 1>>,
                         <<<<81, 85>>, 10>> },
      TripleWord |-> { <<0, 0>>, <<7, 0>>, <<14, 0>>, <<0, 7>>, <<14, 7>>,
                       <<0, 14>>, <<7, 14>>, <<14, 14>> },
      DoubleWord |-> { <<7, 7>>, <<10, 7>>, <<1, 1>>, <<13, 13>> },
      TripleLetter |-> { <<5, 1>>, <<9, 1>>, <<5, 5>>, <<9, 9>> },
      DoubleLetter |-> { <<3, 0>>, <<11, 0>>, <<6, 6>>, <<8, 8>>, <<8, 6>>, <<6, 8>> } ]

RulesetDefs == { StandardDef }

\* the cells a list of positions marks in a [225]bool table
Marked(positions) == { cti(pos[1], pos[2]) : pos \in positions }

\* the range loop that writes the entry of the key's byte as it is
LetterTablesRawKey(def) ==
    LET single == { e \in def.LetterPoints : Len(e[1]) = 1 }
        targets == { e[1][1] : e \in single }
        winners == { w \in [targets -> single] : \A c \in targets : w[c][1][1] = c }
    IN  { [c \in 0..254 |-> IF c \in targets THEN w[c][2] ELSE 0] : w \in winners }

\* the tables tilePoints can hold after the range loop over def.LetterPoints:
\* a key of one byte writes entry key[0]&^32, the last write of an entry wins
LetterTables(def) ==
    LET single == { e \in def.LetterPoints : Len(e[1]) = 1 }
        targets == { AndNot32(e[1][1]) : e \in single }
        winners == { w \in [targets -> single] : \A c \in targets : AndNot32(w[c][1][1]) = c }
    IN  { [c \in 0..254 |-> IF c \in targets THEN w[c][2] ELSE 0] : w \in winners }

\* loadRuleset when config.json or rulesets.json cannot be used
KeepDefaults ==
    /\ ~booted
    /\ booted' = TRUE
    /\ UNCHANGED <<share, game, ruleset, fault, oppWord, placements, work, prev, last, source, lexicon, board, rack, found, moves, topn, fresh, steps, tilePoints, bingoBonus, tw, dw, tl, dl>>

\* loadRuleset finding def, then applyRuleset(def)
ApplyRuleset(def) ==
    /\ ~booted
    /\ booted' = TRUE
    /\ bingoBonus' = IF def.BingoBonus > 0 THEN def.BingoBonus ELSE bingoBonus
    /\ tilePoints' \in LetterTables(def)
    /\ tw' = Marked(def.TripleWord)
    /\ dw' = Marked(def.DoubleWord)
    /\ tl' = Marked(def.TripleLetter)
    /\ dl' = Marked(def.DoubleLetter)
    /\ ruleset' = <<def>>
    /\ UNCHANGED <<share, game, fault, oppWord, placements, work, prev, last, source, lexicon, board, rack, found, moves, topn, fresh, steps>>

(***************************************************************************)
(* The solver's requests.                                                  *)
(***************************************************************************)
\* the process-wide scoring tables, as the scoring code reads them
Rules == [ tilePoints |-> tilePoints, bingoBonus |-> bingoBonus,
           tw |-> tw, dw |-> dw, tl |-> tl, dl |-> dl ]

\* parseRack: every byte but '*' loses bit 5
parseRack(input) == [i \in 1..Len(input) |-> IF input[i] = Star THEN Star ELSE AndNot32(input[i])]

RackInputs ==
    { <<116, 97>>,                         \* ta
      <<42, 65>>,                          \* *A
      <<69, 83, 84, 65, 84, 69, 83>> }     \* ESTATES

LargeN == 1000
NChoices == { 1, ServerTopN, LargeN }

EditCells == { <<7, 7>>, <<6, 7>> }
EditTiles == { 84 }

\* the value of last when the latest step applied no move
NoMove == [x |-> 0, y |-> 0, dir |-> DIR_HORIZ, tiles |-> <<>>, score |-> 0]

\* the value of game when runGame is not running
NoGame == [phase |-> "none"]

\* no board of the database is being shared
NoShare == [pc |-> <<>>]

\* no request made yet: default tables, nothing returned
Idle ==
    /\ rack = <<>>
    /\ found = <<>>
    /\ moves = <<>>
    /\ topn = 0
    /\ fresh = FALSE
    /\ steps = 0
    /\ booted = FALSE
    /\ tilePoints = DefaultTilePoints
    /\ bingoBonus = DefaultBingo
    /\ tw = DefaultTW
    /\ dw = DefaultDW
    /\ tl = DefaultTL
    /\ dl = DefaultDL
    /\ oppWord = <<>>
    /\ placements = <<>>
    /\ work = [rack |-> <<>>, restored |-> TRUE]
    /\ last = NoMove
    /\ fault = FALSE
    /\ ruleset = <<>>
    /\ game = NoGame
    /\ share = NoShare

\* NewBoard: an empty board, the dictionary loaded into word-set and trie
Init ==
    /\ Idle
    /\ board = EmptyBoard
    /\ prev = EmptyBoard
    /\ source = DictLines
    /\ lexicon = [wordlist |-> wordlist, trie |-> trie]

\* handleSolve: the moves for the rack of the request on the current board
Solve(input) ==
    /\ booted
    /\ ~fresh
    /\ rack' = parseRack(input)
    /\ \E end \in { Enumerate(board, Rules, parseRack(input)) } :
          /\ found' = end.moves
          /\ work' = [rack |-> end.rack, restored |-> end.restored]
          /\ fault' = end.fault
          /\ \E sorted \in { SortMoves(end.moves) } :
                \E n \in NChoices : moves' = TopN(sorted, n) /\ topn' = n
    /\ fresh' = TRUE
    /\ prev' = board
    /\ last' = NoMove
    /\ UNCHANGED <<share, game, ruleset, oppWord, placements, source, lexicon, board, steps, booted, tilePoints, bingoBonus, tw, dw, tl, dl>>

\* applyMove of the move picked from the list just returned, here its first
ApplyMove ==
    /\ fresh
    /\ steps < MaxSteps
    /\ moves # <<>>
    /\ board' = play(board, moves[1].x, moves[1].y, moves[1].tiles, moves[1].dir)
    /\ prev' = board
    /\ last' = [x |-> moves[1].x, y |-> moves[1].y, dir |-> moves[1].dir,
                tiles |-> moves[1].tiles, score |-> moves[1].score]
    /\ rack' = <<>>
    /\ work' = [rack |-> <<>>, restored |-> TRUE]
    /\ fault' = FALSE
    /\ found' = <<>>
    /\ moves' = <<>>
    /\ topn' = 0
    /\ fresh' = FALSE
    /\ steps' = steps + 1
    /\ UNCHANGED <<share, game, ruleset, oppWord, placements, source, lexicon, booted, tilePoints, bingoBonus, tw, dw, tl, dl>>

\* stringsToBoard of a request whose board has one more tile
EditBoard(x, y, c) ==
    /\ booted
    /\ steps < MaxSteps
    /\ board[x][y] = 0
    /\ board' = [board EXCEPT ![x][y] = c]
    /\ prev' = [board EXCEPT ![x][y] = c]
    /\ last' = NoMove
    /\ rack' = <<>>
    /\ work' = [rack |-> <<>>, restored |-> TRUE]
    /\ fault' = FALSE
    /\ found' = <<>>
    /\ moves' = <<>>
    /\ topn' = 0
    /\ fresh' = FALSE
    /\ steps' = steps + 1
    /\ UNCHANGED <<share, game, ruleset, oppWord, placements, source, lexicon, booted, tilePoints, bingoBonus, tw, dw, tl, dl>>

Next ==
    \/ KeepDefaults
    \/ \E def \in RulesetDefs : ApplyRuleset(def)
    \/ \E input \in RackInputs : Solve(input)
    \/ ApplyMove
    \/ \E cell \in EditCells, c \in EditTiles : EditBoard(cell[1], cell[2], c)

Spec == Init /\ [][Next]_vars

(***************************************************************************)
(* What the specification says of a placement, read off the boards and the *)
(* lines of the dictionary without the search, the hashes or the trie.     *)
(***************************************************************************)
Cells == Coord \X Coord
At(b, cell) == b[cell[1]][cell[2]]
Anchor(m) == <<m.x, m.y>>

\* the cell k steps from cell along dir; it may lie off the board
Ahead(cell, dir, k) == <<StepX(cell[1], dir, k), StepY(cell[2], dir, k)>>

\* the distances from cell along dir that stay on the board
Track(cell, dir) == { k \in 0..Last : Ahead(cell, dir, k) \in Cells }

\* the empty cells at distance at most k from cell along dir
EmptyUpTo(b, cell, dir, k) == { j \in 0..k : At(b, Ahead(cell, dir, j)) = 0 }

\* the cells that count tiles fill from cell along dir: the first count
\* empty cells of the line
FilledBy(b, cell, dir, count) ==
    { Ahead(cell, dir, k) : k \in { d \in Track(cell, dir) :
          /\ At(b, Ahead(cell, dir, d)) = 0
          /\ Cardinality(EmptyUpTo(b, cell, dir, d)) <= count } }

NewCells(b, m) == FilledBy(b, Anchor(m), m.dir, Len(m.tiles))

\* the move's tiles all find a cell
Fits(b, m) == Cardinality(NewCells(b, m)) = Len(m.tiles)

\* the board after the move
Applied(b, m) == play(b, m.x, m.y, m.tiles, m.dir)

\* the distances (negative: backwards) of the cells of the maximal run of
\* tiles through cell along dir
RunOffsets(b, cell, dir) ==
    { k \in (0 - Last)..Last :
        \A j \in (IF k < 0 THEN k..0 ELSE 0..k) :
            Ahead(cell, dir, j) \in Cells /\ At(b, Ahead(cell, dir, j)) # 0 }

RunCells(b, cell, dir) == { Ahead(cell, dir, k) : k \in RunOffsets(b, cell, dir) }

\* the bytes of that run, first cell first
RunWord(b, cell, dir) ==
    LET offs == RunOffsets(b, cell, dir)
        lo == CHOOSE k \in offs : \A j \in offs : k <= j
    IN  [i \in 1..Cardinality(offs) |-> At(b, Ahead(cell, dir, lo + i - 1))]

\* a word of the dictionary, whatever the case of its tiles
InLexicon(word) == ToUpper(word) \in DictLines

\* the cells next to cell, on the board
Neighbours(cell) ==
    { c \in Cells : \/ (c[1] = cell[1] /\ (c[2] = cell[2] + 1 \/ c[2] = cell[2] - 1))
                    \/ (c[2] = cell[2] /\ (c[1] = cell[1] + 1 \/ c[1] = cell[1] - 1)) }

Touches(b, cell) == \E c \in Neighbours(cell) : At(b, c) # 0

\* main word and cross-words of the move m on the board b are dictionary words
Legal(b, m) ==
    /\ Fits(b, m)
    /\ \A after \in { Applied(b, m) } :
          /\ NewCells(b, m) \subseteq RunCells(after, Anchor(m), m.dir)
          /\ Len(RunWord(after, Anchor(m), m.dir)) >= 2
          /\ InLexicon(RunWord(after, Anchor(m), m.dir))
          /\ \A cell \in NewCells(b, m) :
                \/ Len(RunWord(after, cell, Other(m.dir))) = 1
                \/ InLexicon(RunWord(after, cell, Other(m.dir)))

Returned == { moves[i] : i \in 1..Len(moves) }

\* C2: every placement returned is legal once applied: its main run is a
\* dictionary word of two or more tiles and every cross-word of two or more
\* tiles through a new tile is a dictionary word
C2_ReturnedPlacementsAreLegal == fresh => \A m \in Returned : Legal(board, m)

\* a returned placement that completes a cross-word
C2_Witness ==
    fresh /\ \E m \in Returned :
                \E cell \in NewCells(board, m) :
                    Len(RunWord(Applied(board, m), cell, Other(m.dir))) >= 2

\* C6: while the centre cell is empty, every placement returned puts one of
\* its new tiles on the centre cell
C6_FirstMoveCoversCentre ==
    (fresh /\ board[Center][Center] = 0) =>
        \A m \in Returned : <<Center, Center>> \in NewCells(board, m)

\* placements returned for a board with tiles on it and an empty centre
C6_Witness ==
    /\ fresh
    /\ board[Center][Center] = 0
    /\ board # EmptyBoard
    /\ moves # <<>>

\* C7: once the centre cell is occupied, every placement returned has a new
\* cell next to a tile that was on the board before
C7_PlacementsTouchTheBoard ==
    (fresh /\ board[Center][Center] # 0) =>
        \A m \in Returned : \E cell \in NewCells(board, m) : Touches(board, cell)

\* placements returned for a board whose centre is occupied, one of them
\* with a new cell that touches no tile
C7_Witness ==
    /\ fresh
    /\ board[Center][Center] # 0
    /\ \E m \in Returned : \E cell \in NewCells(board, m) : ~Touches(board, cell)

(***************************************************************************)
(* The score of a placement as the specification words it: per word, the   *)
(* letter values, a letter premium on a new cell, and the product of the   *)
(* word premiums of the new cells; no word for a run of one tile.          *)
(***************************************************************************)
RECURSIVE SumFn(_)
\* the sum of the values of a function with a finite domain
SumFn(f) ==
    IF DOMAIN f = {} THEN 0
    ELSE LET c == CHOOSE d \in DOMAIN f : TRUE
         IN  f[c] + SumFn([d \in DOMAIN f \ {c} |-> f[d]])

RECURSIVE ProdFn(_)
\* the product of the values of a function with a finite domain
ProdFn(f) ==
    IF DOMAIN f = {} THEN 1
    ELSE LET c == CHOOSE d \in DOMAIN f : TRUE
         IN  f[c] * ProdFn([d \in DOMAIN f \ {c} |-> f[d]])

CellIdx(cell) == cti(cell[1], cell[2])

LetterFactor(rs, new, cell) ==
    IF cell \notin new THEN 1
    ELSE IF CellIdx(cell) \in rs.dl THEN 2
    ELSE IF CellIdx(cell) \in rs.tl THEN 3
    ELSE 1

WordFactor(rs, new, cell) ==
    IF cell \notin new THEN 1
    ELSE IF CellIdx(cell) \in rs.dw THEN 2
    ELSE IF CellIdx(cell) \in rs.tw THEN 3
    ELSE 1

\* the value of the run on the cells run of the board after, the cells new
\* being the move's; face gives a tile's points
RunValue(after, rs, face, new, run) ==
    IF Cardinality(run) < 2 THEN 0
    ELSE SumFn([c \in run |-> face[At(after, c)] * LetterFactor(rs, new, c)])
         * ProdFn([c \in run |-> WordFactor(rs, new, c)])

\* main word plus the cross-word of every new tile
PlacementValue(b, rs, face, m) ==
    LET after == Applied(b, m)
        new == NewCells(b, m)
    IN  RunValue(after, rs, face, new, RunCells(after, Anchor(m), m.dir))
        + SumFn([c \in new |->
                    RunValue(after, rs, face, new, RunCells(after, c, Other(m.dir)))])

\* the bonus due to a move for the rack of the request
Bonus(m) == IF Len(rack) = BingoLen /\ Len(m.tiles) = BingoLen THEN bingoBonus ELSE 0

\* C3: the score of every placement returned is scoreMove of the placement
\* on the board of the request, plus the bingo bonus exactly when the rack
\* has 7 tiles and the placement places 7
C3_ScoreIsScoreMovePlusBingo ==
    fresh => \A m \in Returned :
                m.score = scoreMove(board, Rules, m.x, m.y, m.tiles, m.dir) + Bonus(m)

\* a rack of 7 tiles with a placement of all 7 and a placement of fewer
C3_Witness ==
    /\ fresh
    /\ Len(rack) = BingoLen
    /\ \E m \in Returned : Len(m.tiles) = BingoLen /\ m.score > bingoBonus
    /\ \E m \in Returned : Len(m.tiles) < BingoLen

\* C4: the score without the bonus is the value in which letter and word
\* premiums count for the new cells only, a tile that was on the board
\* gives its face value, and a run of one tile gives nothing
C4_PremiumsOnNewCellsOnly ==
    fresh => \A m \in Returned :
                m.score - Bonus(m) = PlacementValue(board, Rules, tilePoints, m)

\* a returned placement whose main word runs over a tile that was on the
\* board on a premium square
C4_Witness ==
    fresh /\ \E m \in Returned :
                \E cell \in RunCells(Applied(board, m), Anchor(m), m.dir) :
                    /\ At(board, cell) # 0
                    /\ CellIdx(cell) \in (tw \cup dw \cup tl \cup dl)

\* the tile points with nothing for a lowercase byte
BlankFree(points) == [c \in DOMAIN points |-> IF c \in Lower THEN 0 ELSE points[c]]

\* C5: a letter played from a blank is recorded in lowercase and a letter
\* played from a normal tile in uppercase; no lowercase byte has points in
\* the tables, and the score is the one in which blanks, new or on the
\* board, count 0
C5_BlanksLowercaseAndWorthless ==
    /\ \A c \in Lower : tilePoints[c] = 0
    /\ fresh => \A m \in Returned :
          /\ Len(m.used) = Len(m.tiles)
          /\ \A i \in 1..Len(m.tiles) :
                IF m.used[i] = Star THEN m.tiles[i] \in Lower
                ELSE m.tiles[i] \in Upper /\ m.tiles[i] = m.used[i]
          /\ m.score - Bonus(m) = PlacementValue(board, Rules, BlankFree(tilePoints), m)

\* after applyRuleset, a returned placement that plays a blank next to a
\* blank that is on the board
C5_Witness ==
    /\ fresh
    /\ bingoBonus # DefaultBingo
    /\ \E m \in Returned :
          /\ \E i \in 1..Len(m.tiles) : m.tiles[i] \in Lower
          /\ \E cell \in RunCells(Applied(board, m), Anchor(m), m.dir) :
                At(board, cell) \in Lower

FoundSet == { found[i] : i \in 1..Len(found) }

\* C8: the list returned holds at most n placements, in non-increasing
\* order of score, and they are the n highest-scoring placements of the
\* enumeration: each is one of the enumeration, none is listed twice, the
\* list is as long as n and the enumeration allow, and no placement left
\* out scores more than one returned
C8_TopNByScore ==
    fresh =>
        /\ Len(moves) <= topn
        /\ Len(moves) = (IF Len(found) > topn THEN topn ELSE Len(found))
        /\ \A i \in 1..(Len(moves) - 1) : moves[i].score >= moves[i + 1].score
        /\ Returned \subseteq FoundSet
        /\ Cardinality(Returned) = Len(moves)
        /\ \A out \in FoundSet \ Returned : \A m \in Returned : m.score >= out.score

\* a result cut to n that leaves out a placement of a lower score than its
\* last and keeps two different scores
C8_Witness ==
    /\ fresh
    /\ Len(found) > topn
    /\ Len(moves) >= 2
    /\ moves[1].score > moves[Len(moves)].score
    /\ \E out \in FoundSet \ Returned : out.score < moves[Len(moves)].score

\* the key of a placement: anchor, direction and letters in uppercase
KeyOf(m) == <<m.x, m.y, m.dir, [i \in 1..Len(m.tiles) |-> AndNot32(m.tiles[i])]>>

WordCell(s, dir, k) == Ahead(s, dir, k)

\* w lies on the board from s: it stays on the board, agrees with the tiles
\* it runs over, and no tile stands right before or right behind it
LiesOn(b, w, s, dir) ==
    /\ WordCell(s, dir, Len(w) - 1) \in Cells
    /\ \A k \in 0..(Len(w) - 1) :
          At(b, WordCell(s, dir, k)) = 0 \/ AndNot32(At(b, WordCell(s, dir, k))) = w[k + 1]
    /\ Ahead(s, dir, -1) \in Cells => At(b, Ahead(s, dir, -1)) = 0
    /\ Ahead(s, dir, Len(w)) \in Cells => At(b, Ahead(s, dir, Len(w))) = 0

\* the distances of the cells of w that need a tile
Gaps(b, w, s, dir) == { k \in 0..(Len(w) - 1) : At(b, WordCell(s, dir, k)) = 0 }

RECURSIVE LettersAt(_, _, _)
\* the letters of w at the distances gaps, in order
LettersAt(w, gaps, k) ==
    IF k >= Len(w) THEN <<>>
    ELSE IF k \in gaps THEN <<w[k + 1]>> \o LettersAt(w, gaps, k + 1)
    ELSE LettersAt(w, gaps, k + 1)

Count(seq, c) == Cardinality({ i \in 1..Len(seq) : seq[i] = c })

\* the rack r can supply the letters, a blank standing for any letter
Supplies(r, letters) ==
    SumFn([l \in Upper |->
              IF Count(letters, l) > Count(r, l) THEN Count(letters, l) - Count(r, l) ELSE 0])
        <= Count(r, Star)

\* the placement that lays w from s along dir: anchor, direction and the
\* letters for the empty cells
Laying(b, w, s, dir) ==
    LET gaps == Gaps(b, w, s, dir)
        first == CHOOSE k \in gaps : \A j \in gaps : k <= j
    IN  [x |-> WordCell(s, dir, first)[1], y |-> WordCell(s, dir, first)[2],
         dir |-> dir, tiles |-> LettersAt(w, gaps, 0)]

\* laying w from s along dir is a legal placement for the rack r
LegalLaying(b, r, w, s, dir) ==
    /\ LiesOn(b, w, s, dir)
    /\ Gaps(b, w, s, dir) # {}
    /\ \A m \in { Laying(b, w, s, dir) } :
          /\ Supplies(r, m.tiles)
          /\ IF At(b, <<Center, Center>>) = 0
             THEN <<Center, Center>> \in NewCells(b, m)
             ELSE \E cell \in NewCells(b, m) : Touches(b, cell)
          /\ Legal(b, m)

\* C1: every legal placement is in the result when n is large: for every
\* line of the dictionary, start cell and direction whose laying is legal
\* for the rack, a returned placement has its anchor, direction and letters
C1_EveryLegalPlacementIsReturned ==
    (fresh /\ topn = LargeN) =>
        \A w \in DictLines, s \in Cells, dir \in {DIR_VERT, DIR_HORIZ} :
            LegalLaying(board, rack, w, s, dir) =>
                \E m \in Returned : KeyOf(m) = KeyOf(Laying(board, w, s, dir))

(***************************************************************************)
(* The rack as a multiset.                                                 *)
(***************************************************************************)
\* the tiles of r in the opposite order
Reverse(r) == [i \in 1..Len(r) |-> r[Len(r) + 1 - i]]

\* the placements of a list without their history: anchor, direction,
\* letters with their case, score
Placements(list) ==
    { [x |-> list[i].x, y |-> list[i].y, dir |-> list[i].dir,
       tiles |-> list[i].tiles, score |-> list[i].score] : i \in 1..Len(list) }

\* C11: the rack is a multiset: the enumeration for the rack of the request
\* and the enumeration for the same tiles in the opposite order, on the
\* same board, are the same set of placements, letter case and scores
\* included
C11_RackOrderIsIrrelevant ==
    fresh => \A b \in { board }, rs \in { Rules }, p \in { Reverse(rack) } :
                Placements(Enumerate(b, rs, p).moves) = Placements(found)

(***************************************************************************)
(* Loading a dictionary file into the word-set and the trie.               *)
(***************************************************************************)
MaxProbeLen == 3

\* lines a dictionary file may hold: AT, at, TA, Ta, A, A1, TAT
LexLines ==
    { <<65, 84>>, <<97, 116>>, <<84, 65>>, <<84, 97>>, <<65>>, <<65, 49>>,
      <<84, 65, 84>> }

NoLexicon == [wordlist |-> {}, trie |-> [nodes |-> {<<>>}, ends |-> {}]]

\* a file is chosen, nothing is loaded yet
LexInit ==
    /\ Idle
    /\ board = EmptyBoard
    /\ prev = EmptyBoard
    /\ source \in SUBSET LexLines
    /\ lexicon = NoLexicon

\* NewBoard's two passes over the file: loadDictionary and buildTrie
LoadLexicon ==
    /\ lexicon = NoLexicon
    /\ lexicon' = [wordlist |-> loadDictionary(source), trie |-> buildTrie(source)]
    /\ UNCHANGED <<share, game, ruleset, fault, oppWord, placements, work, prev, last, source, board, rack, found, moves, topn, fresh, steps, booted,
                   tilePoints, bingoBonus, tw, dw, tl, dl>>

LexNext == LoadLexicon

LexSpec == LexInit /\ [][LexNext]_vars

\* the letter sequences looked up: A and T, up to MaxProbeLen letters
Probes == UNION { [1..n -> {65, 84}] : n \in 1..MaxProbeLen }

\* the lookup of the cross-word check: the hash of the bytes, each with bit
\* 5 cleared by Add, is in the word-set
InWordSet(ws, w) == CrossHash(NewFNV, w, 0, 1) \in ws

\* the trie has a path from the root that spells w and ends a word
HasPath(tr, w) == [i \in 1..Len(w) |-> TrieIdx(w[i])] \in tr.ends

\* C12: a letter sequence is accepted by the word-set lookup exactly when
\* the trie built from the same lines has a root-to-terminal path for it
C12_WordSetIffTriePath ==
    \A w \in Probes : InWordSet(lexicon.wordlist, w) <=> HasPath(lexicon.trie, w)


(***************************************************************************)
(* findOpponentPlacements and the sort of its callers.  The word is a      *)
(* sequence of bytes; a placement is a BestMove.                           *)
(***************************************************************************)
RECURSIVE ScanLoop(_, _, _, _, _, _, _)
\* "Scan word positions": the loop over the cells under the word, left at
\* the first conflict; acc = [valid, newTiles, firstNewX, firstNewY, touches]
ScanLoop(b, w, dir, startX, startY, i, acc) ==
    IF i >= Len(w) THEN acc
    ELSE LET bx == StepX(startX, dir, i)
             by == StepY(startY, dir, i)
         IN  IF b[bx][by] # 0
             THEN IF b[bx][by] # w[i + 1] THEN [acc EXCEPT !.valid = FALSE]
                  ELSE ScanLoop(b, w, dir, startX, startY, i + 1, [acc EXCEPT !.touches = TRUE])
             ELSE ScanLoop(b, w, dir, startX, startY, i + 1,
                           [acc EXCEPT !.newTiles = Append(@, w[i + 1]),
                                       !.firstNewX = IF acc.firstNewX = -1 THEN bx ELSE @,
                                       !.firstNewY = IF acc.firstNewX = -1 THEN by ELSE @,
                                       !.touches = @ \/ HasNeighbour(b, bx, by)])

RECURSIVE CrossFirst(_, _, _, _)
\* "for cy1 > 0 && board[bx][cy1-1] != 0 { cy1-- }" along the direction o
CrossFirst(b, x, y, o) ==
    LET p == IF o = DIR_VERT THEN y ELSE x
    IN  IF p > 0 /\ b[StepX(x, o, -1)][StepY(y, o, -1)] # 0
        THEN CrossFirst(b, StepX(x, o, -1), StepY(y, o, -1), o)
        ELSE p

RECURSIVE CrossLast(_, _, _, _)
\* "for cy2 < 14 && board[bx][cy2+1] != 0 { cy2++ }" along the direction o
CrossLast(b, x, y, o) ==
    LET p == IF o = DIR_VERT THEN y ELSE x
    IN  IF p < Last /\ b[StepX(x, o, 1)][StepY(y, o, 1)] # 0
        THEN CrossLast(b, StepX(x, o, 1), StepY(y, o, 1), o)
        ELSE p

RECURSIVE CrossSum(_, _, _, _, _, _, _, _)
\* "for j := cy1; j <= cy2; j++ { f.Add(...) }": the hash of the cross-word
\* through (bx, by) along o, the letter c standing on (bx, by)
CrossSum(h, b, bx, by, o, c, j, to) ==
    IF j > to THEN h
    ELSE LET own == IF o = DIR_VERT THEN by ELSE bx
             cell == IF o = DIR_VERT THEN b[bx][j] ELSE b[j][by]
         IN  CrossSum(FnvAdd(h, IF j = own THEN c ELSE cell), b, bx, by, o, c, j + 1, to)

\* the cross-word check that accepts every cross-word
CrossLoopOff(b, w, dir, startX, startY, i) == TRUE

RECURSIVE CrossLoop(_, _, _, _, _, _)
\* "Validate cross-words formed by each new tile": crossValid
CrossLoop(b, w, dir, startX, startY, i) ==
    IF i >= Len(w) THEN TRUE
    ELSE LET bx == StepX(startX, dir, i)
             by == StepY(startY, dir, i)
             o == Other(dir)
             own == IF o = DIR_VERT THEN by ELSE bx
         IN  IF b[bx][by] # 0 THEN CrossLoop(b, w, dir, startX, startY, i + 1)
             ELSE LET c1 == CrossFirst(b, bx, by, o)
                      c2 == CrossLast(b, bx, by, o)
                  IN  IF (c1 < own \/ c2 > own)
                         /\ CrossSum(NewFNV, b, bx, by, o, w[i + 1], c1, c2) \notin wordlist
                      THEN FALSE
                      ELSE CrossLoop(b, w, dir, startX, startY, i + 1)

\* "First word must cover the center square": coversCentre
CoversCentre(w, dir, startX, startY) ==
    \E i \in 0..(Len(w) - 1) :
        StepX(startX, dir, i) = Center /\ StepY(startY, dir, i) = Center

\* the score with the bonus of a rack played out
OppScoreWithBingo(b, rs, x, y, tiles, dir) ==
    scoreMove(b, rs, x, y, tiles, dir) + (IF Len(tiles) = BingoLen THEN rs.bingoBonus ELSE 0)

\* "score := b.scoreMove(firstNewX, firstNewY, newTiles, dir)"
OppScore(b, rs, x, y, tiles, dir) == scoreMove(b, rs, x, y, tiles, dir)

\* the body of the loops for one direction and start cell: the placements
\* it appends, none or one, and whether scoreMove ended in an index out of
\* range; w is the word in uppercase
OppAt(b, rs, w, dir, startX, startY) ==
    LET n == Len(w)
        none == [list |-> <<>>, fault |-> FALSE]
    IN  IF dir = DIR_HORIZ /\ startX + n > Size THEN none
        ELSE IF dir = DIR_VERT /\ startY + n > Size THEN none
        ELSE IF dir = DIR_HORIZ /\ startX > 0 /\ b[startX - 1][startY] # 0 THEN none
        ELSE IF dir = DIR_VERT /\ startY > 0 /\ b[startX][startY - 1] # 0 THEN none
        ELSE IF dir = DIR_HORIZ /\ startX + n < Size /\ b[startX + n][startY] # 0 THEN none
        ELSE IF dir = DIR_VERT /\ startY + n < Size /\ b[startX][startY + n] # 0 THEN none
        ELSE LET scan == ScanLoop(b, w, dir, startX, startY, 0,
                                  [valid |-> TRUE, newTiles |-> <<>>, firstNewX |-> -1,
                                   firstNewY |-> -1, touches |-> FALSE])
             IN  IF ~scan.valid \/ Len(scan.newTiles) = 0 THEN none
                 ELSE IF b[Center][Center] # 0 /\ ~scan.touches THEN none
                 ELSE IF ~CrossLoop(b, w, dir, startX, startY, 0) THEN none
                 ELSE IF b[Center][Center] = 0 /\ ~CoversCentre(w, dir, startX, startY) THEN none
                 ELSE IF scoreMoveFaults(b, rs, scan.firstNewX, scan.firstNewY,
                                         scan.newTiles, dir)
                 THEN [list |-> <<>>, fault |-> TRUE]
                 ELSE [list |-> << [x |-> scan.firstNewX, y |-> scan.firstNewY, dir |-> dir,
                                    tiles |-> scan.newTiles,
                                    score |-> OppScore(b, rs, scan.firstNewX, scan.firstNewY,
                                                       scan.newTiles, dir)] >>,
                       fault |-> FALSE]

RECURSIVE StartYLoop(_, _, _, _, _, _, _)
\* "for startY := 0; startY < 15; startY++"; acc = [list, fault]
StartYLoop(acc, b, rs, w, dir, startX, startY) ==
    IF Evaluated(acc) /\ startY >= Size THEN acc
    ELSE LET r == OppAt(b, rs, w, dir, startX, startY)
         IN  StartYLoop([list |-> acc.list \o r.list, fault |-> acc.fault \/ r.fault],
                        b, rs, w, dir, startX, startY + 1)

RECURSIVE StartXLoop(_, _, _, _, _, _)
\* "for startX := 0; startX < 15; startX++"
StartXLoop(acc, b, rs, w, dir, startX) ==
    IF Evaluated(acc) /\ startX >= Size THEN acc
    ELSE StartXLoop(StartYLoop(acc, b, rs, w, dir, startX, 0), b, rs, w, dir, startX + 1)

\* findOpponentPlacements with its outcome: the list, and whether it ended
\* in an index out of range
findOpponentRun(b, rs, w0) ==
    LET w == ToUpper(w0)
    IN  StartXLoop(StartXLoop([list |-> <<>>, fault |-> FALSE], b, rs, w, DIR_HORIZ, 0),
                   b, rs, w, DIR_VERT, 0)

findOpponentPlacements(b, rs, w0) == findOpponentRun(b, rs, w0).list

\* the placements in the order of the loops
handleOpponentUnsorted(b, rs, w0) == findOpponentRun(b, rs, w0)

\* handleOpponent: the placements, then sort.Slice by score descending
handleOpponent(b, rs, w0) ==
    LET out == findOpponentRun(b, rs, w0)
    IN  [list |-> SortMoves(out.list), fault |-> out.fault]

(***************************************************************************)
(* The opponent-word requests: a board as a client sends it, the word the  *)
(* opponent played, the placements found for it, and the one applied.      *)
(***************************************************************************)
\* the board with the tiles of row on the cells (x, y), (x + 1, y), ...
RowOf(x, y, row) ==
    [i \in Coord |-> [j \in Coord |->
        IF j = y /\ i >= x /\ i < x + Len(row) THEN row[i - x + 1] ELSE 0]]

\* HELLO on (5,7)-(9,7)
HelloBoard == RowOf(5, 7, <<72, 69, 76, 76, 79>>)

\* boards of a request: empty; HELLO on (5,7)-(9,7); a blank played as E on
\* the centre; T on the centre; T on (6,7) with the centre empty
OppBoards ==
    { EmptyBoard,
      HelloBoard,
      RowOf(7, 7, <<101>>),
      RowOf(7, 7, <<84>>),
      RowOf(6, 7, <<84>>) }

OppWords ==
    { <<69, 65, 84>>,                       \* EAT
      <<116, 97, 116>>,                     \* tat
      <<72, 69, 76, 76, 79, 83>>,           \* HELLOS
      <<69, 83, 84, 65, 84, 69, 83>> }      \* ESTATES

OppInit ==
    /\ Idle
    /\ board \in OppBoards
    /\ prev = board
    /\ source = DictLines
    /\ lexicon = [wordlist |-> wordlist, trie |-> trie]

\* handleOpponent: the placements of the word of the request on the board
FindPlacements(w0) ==
    /\ booted
    /\ ~fresh
    /\ oppWord' = w0
    /\ \E out \in { handleOpponent(board, Rules, w0) } :
          placements' = out.list /\ fault' = out.fault
    /\ fresh' = TRUE
    /\ prev' = board
    /\ last' = NoMove
    /\ UNCHANGED <<share, game, ruleset, work, source, lexicon, board, rack, found, moves, topn, steps, booted,
                   tilePoints, bingoBonus, tw, dw, tl, dl>>

\* applyMove of the placement picked from the list just returned, here its first
ApplyPlacement ==
    /\ fresh
    /\ steps < MaxSteps
    /\ placements # <<>>
    /\ board' = play(board, placements[1].x, placements[1].y, placements[1].tiles,
                     placements[1].dir)
    /\ prev' = board
    /\ last' = placements[1]
    /\ oppWord' = <<>>
    /\ placements' = <<>>
    /\ fault' = FALSE
    /\ fresh' = FALSE
    /\ steps' = steps + 1
    /\ UNCHANGED <<share, game, ruleset, work, source, lexicon, rack, found, moves, topn, booted,
                   tilePoints, bingoBonus, tw, dw, tl, dl>>

OppNext ==
    \/ KeepDefaults
    \/ \E def \in RulesetDefs : ApplyRuleset(def)
    \/ \E w0 \in OppWords : FindPlacements(w0)
    \/ ApplyPlacement

OppSpec == OppInit /\ [][OppNext]_vars

(***************************************************************************)
(* The legal placements of a word, read off the board and the dictionary.  *)
(***************************************************************************)
Dirs == { DIR_VERT, DIR_HORIZ }

\* the cells under the word w laid from s along dir
Under(w, s, dir) == { WordCell(s, dir, k) : k \in 0..(Len(w) - 1) }

\* the rule of the first move, or else the link to the tiles on the board
Linked(b, w, s, dir) ==
    IF At(b, <<Center, Center>>) = 0
    THEN <<Center, Center>> \in Under(w, s, dir)
    ELSE \E cell \in Under(w, s, dir) : At(b, cell) # 0 \/ Touches(b, cell)

\* every cross-word of two or more tiles that a new tile makes is a line of
\* the dictionary
CrossWordsValid(b, w, s, dir) ==
    \A after \in { Applied(b, Laying(b, w, s, dir)) } :
        \A k \in Gaps(b, w, s, dir) :
            \/ Len(RunWord(after, WordCell(s, dir, k), Other(dir))) = 1
            \/ InLexicon(RunWord(after, WordCell(s, dir, k), Other(dir)))

\* laying w from s along dir is a legal placement of the word
LegalSpot(b, w, s, dir) ==
    /\ LiesOn(b, w, s, dir)
    /\ Gaps(b, w, s, dir) # {}
    /\ Linked(b, w, s, dir)
    /\ CrossWordsValid(b, w, s, dir)

LegalSpots(b, w) == { sd \in Cells \X Dirs : LegalSpot(b, w, sd[1], sd[2]) }

\* C13: the list returned for a word is non-empty if and only if the word
\* has a legal placement on the board: a start cell and a direction that
\* keep the boundary rule, agree with the tiles under the word (normal tiles
\* and blanks bearing its letters), place a new tile, are linked to the board
\* (or cover the centre on a first move) and make valid cross-words only
C13_NonEmptyIffALegalPlacementExists ==
    fresh => (placements # <<>> <=> LegalSpots(board, ToUpper(oppWord)) # {})

\* the placements returned for the word
Offered == { placements[i] : i \in 1..Len(placements) }

\* anchor, direction and letters of a placement
Shape(m) == [x |-> m.x, y |-> m.y, dir |-> m.dir, tiles |-> m.tiles]

\* the start cells from which laying w along the direction of p gives p
StartsOf(b, w, p) ==
    { s \in Cells : /\ WordCell(s, p.dir, Len(w) - 1) \in Cells
                    /\ Gaps(b, w, s, p.dir) # {}
                    /\ Laying(b, w, s, p.dir) = Shape(p) }

\* C14: every placement returned comes from a start cell and a direction
\* such that the cells right before the start and right behind the end are
\* empty or off the board, every cross-word of two or more tiles made by a
\* new tile is in the word-set, and the word reuses a tile or has a new cell
\* next to a tile when the centre is occupied, covers the centre when not
C14_ReturnedPlacementsKeepTheRules ==
    fresh => \A p \in Offered :
                \E s \in StartsOf(board, ToUpper(oppWord), p) :
                    LegalSpot(board, ToUpper(oppWord), s, p.dir)

\* a placement of the whole word beside a tile of an occupied centre, one
\* of its tiles making a cross-word
C14_Witness ==
    /\ fresh
    /\ board[Center][Center] # 0
    /\ \E p \in Offered :
          /\ Len(p.tiles) = Len(oppWord)
          /\ \E cell \in NewCells(board, p) :
                Len(RunWord(Applied(board, p), cell, Other(p.dir))) >= 2

(***************************************************************************)
(* A word that extends a word on the board by one tile at its end.         *)
(***************************************************************************)
Hellos == <<72, 69, 76, 76, 79, 83>>

\* the placement p lays one tile right behind a run of tiles, nothing
\* stands behind it, and the tile makes no cross-word
ExtendsByOne(b, p) ==
    /\ Len(p.tiles) = 1
    /\ Ahead(Anchor(p), p.dir, -1) \in Cells
    /\ At(b, Ahead(Anchor(p), p.dir, -1)) # 0
    /\ Ahead(Anchor(p), p.dir, 1) \in Cells => At(b, Ahead(Anchor(p), p.dir, 1)) = 0
    /\ Ahead(Anchor(p), Other(p.dir), -1) \in Cells => At(b, Ahead(Anchor(p), Other(p.dir), -1)) = 0
    /\ Ahead(Anchor(p), Other(p.dir), 1) \in Cells => At(b, Ahead(Anchor(p), Other(p.dir), 1)) = 0

\* the value of the whole extended word: the tiles that were on the board
\* at face value, the new tile with the letter premium of its cell, the sum
\* times the word premium of that cell
ExtendedWordValue(b, rs, p) ==
    LET new == { Anchor(p) }
        old == RunCells(b, Ahead(Anchor(p), p.dir, -1), p.dir)
    IN  (SumFn([c \in old |-> rs.tilePoints[At(b, c)]])
            + rs.tilePoints[p.tiles[1]] * LetterFactor(rs, new, Anchor(p)))
        * WordFactor(rs, new, Anchor(p))

\* the value of the new tile alone, with the premiums of its cell
NewTileValue(rs, p) ==
    rs.tilePoints[p.tiles[1]] * LetterFactor(rs, { Anchor(p) }, Anchor(p))
        * WordFactor(rs, { Anchor(p) }, Anchor(p))

\* the placement of S on (10,7) behind HELLO
HellosPlaced == { p \in Offered : Shape(p) = [x |-> 10, y |-> 7, dir |-> DIR_HORIZ, tiles |-> <<83>>] }

\* C15: with HELLO on (5,7)-(9,7) the word HELLOS gets a placement with the
\* anchor (10,7), the direction H and the letters S; the score of a
\* placement that extends a word by one tile at its end and makes no
\* cross-word is the value of the whole extended word, the tiles that were
\* on the board at face value and the premiums of the new cell applied
C15_ExtensionScoresTheWholeWord ==
    fresh =>
        /\ (board = HelloBoard /\ ToUpper(oppWord) = Hellos) => HellosPlaced # {}
        /\ \A p \in Offered :
              ExtendsByOne(board, p) => p.score = ExtendedWordValue(board, Rules, p)

\* C15 as stated: the score of the placement of S behind HELLO is the value
\* of the new letter with the premiums of the new cell
C15_ExtensionScoresTheNewTile ==
    (fresh /\ board = HelloBoard /\ ToUpper(oppWord) = Hellos) =>
        \E p \in HellosPlaced : p.score = NewTileValue(Rules, p)

\* HELLOS asked for on the board with HELLO, the new cell a premium square
C15_Witness ==
    /\ fresh
    /\ board = HelloBoard
    /\ ToUpper(oppWord) = Hellos
    /\ cti(10, 7) \in dw
    /\ \E p \in HellosPlaced : ExtendsByOne(board, p) /\ p.score > 0

\* C16: every placement returned has for anchor the first cell under the
\* word that was empty and for letters the letters of the word on the empty
\* cells, in order; it places at least one letter; its score is the value of
\* these letters laid from the anchor, with no bingo bonus, 7 tiles or not
C16_AnchorLettersAndScoreOfAPlacement ==
    fresh => \A p \in Offered :
                /\ StartsOf(board, ToUpper(oppWord), p) # {}
                /\ Len(p.tiles) >= 1
                /\ p.score = PlacementValue(board, Rules, tilePoints, p)

\* a word of 7 letters with a placement of 7 new tiles and a placement that
\* runs over a tile of the board
C16_Witness ==
    /\ fresh
    /\ \E p \in Offered : Len(p.tiles) = BingoLen /\ p.score > 0 /\ p.score < bingoBonus
    /\ \E p \in Offered : Len(p.tiles) < Len(oppWord)

\* C17: the list returned for a word has no two entries with the same key
\* (anchor, direction, letters in uppercase) and its scores never increase
C17_PlacementsDistinctAndSorted ==
    fresh =>
        /\ \A i, j \in 1..Len(placements) :
              i # j => KeyOf(placements[i]) # KeyOf(placements[j])
        /\ \A i \in 1..(Len(placements) - 1) :
              placements[i].score >= placements[i + 1].score

\* a list of several placements of different scores that the loops found
\* in another order
C17_Witness ==
    /\ fresh
    /\ Len(placements) >= 3
    /\ \E p, q \in Offered : p.score # q.score
    /\ findOpponentPlacements(board, Rules, oppWord) # placements

(***************************************************************************)
(* The effect of applying a placement, prev being the board before.        *)
(***************************************************************************)
\* the rank of the empty cell c among the empty cells from cell on
RankOf(b, cell, dir, c) ==
    Cardinality({ d \in FilledBy(b, cell, dir, Size) :
                    IF dir = DIR_VERT THEN d[2] <= c[2] ELSE d[1] <= c[1] })

\* C18: applying a placement writes its i-th letter into the i-th empty
\* cell at or after the anchor along its direction: every cell that was
\* occupied keeps its tile, exactly as many empty cells change as there are
\* letters, and every other cell is unchanged
C18_ApplyWritesTheEmptyCellsInOrder ==
    last # NoMove =>
        \A new \in { FilledBy(prev, Anchor(last), last.dir, Len(last.tiles)) } :
            /\ Cardinality(new) = Len(last.tiles)
            /\ \A c \in new : At(board, c) = last.tiles[RankOf(prev, Anchor(last), last.dir, c)]
            /\ \A c \in Cells \ new : At(board, c) = At(prev, c)
            /\ { c \in Cells : At(board, c) # At(prev, c) } = new

\* a placement applied whose letters went to both sides of a tile that was
\* on the board
C18_Witness ==
    /\ last # NoMove
    /\ \E k \in 1..Last :
          /\ Ahead(Anchor(last), last.dir, k + 1) \in Cells
          /\ At(prev, Ahead(Anchor(last), last.dir, k)) # 0
          /\ At(prev, Ahead(Anchor(last), last.dir, k + 1)) = 0
          /\ At(board, Ahead(Anchor(last), last.dir, k + 1)) # 0

(***************************************************************************)
(* What a query leaves of its inputs.                                      *)
(***************************************************************************)
\* C19: a query changes none of its inputs: when it has returned, the board
\* is the board of the request, word-set and trie are the ones loaded, the
\* rack holds the tiles of the request in their order, and every call of
\* searchPlay gave the working rack back in the sequence it got it
C19_QueriesLeaveTheirInputs ==
    fresh =>
        /\ board = prev
        /\ lexicon = [wordlist |-> wordlist, trie |-> trie]
        /\ work.rack = rack
        /\ work.restored

\* a search that took two tiles or more of a rack for a placement, which
\* swaps tiles of the working rack
C19_Witness ==
    /\ fresh
    /\ work.rack = rack
    /\ \E i \in 1..Len(found) : Len(found[i].used) >= 2 /\ found[i].used[1] # rack[Len(rack)]

(***************************************************************************)
(* Requests of both kinds on boards with tiles at the edge, with an empty  *)
(* rack, an empty word and a word longer than a line of the board.         *)
(***************************************************************************)
\* T on the centre, AT on (13,14)-(14,14), A on (14,0)
EdgeBoard ==
    [i \in Coord |-> [j \in Coord |->
        IF i = Center /\ j = Center THEN 84
        ELSE IF i = Last - 1 /\ j = Last THEN 65
        ELSE IF i = Last /\ j = Last THEN 84
        ELSE IF i = Last /\ j = 0 THEN 65
        ELSE 0]]

TotalBoards == { EmptyBoard, RowOf(7, 7, <<84>>), RowOf(7, 7, <<101>>), EdgeBoard, HelloBoard }

\* the racks of the requests, with the empty rack and the rack "A1", whose
\* second character is neither a letter nor the blank symbol
TotalRacks == RackInputs \cup { <<>>, <<65, 49>> }

\* a word of 16 letters
LongWord == [i \in 1..(Size + 1) |-> 84]

TotalWords == OppWords \cup { <<>>, LongWord }

TotalInit ==
    /\ Idle
    /\ board \in TotalBoards
    /\ prev = board
    /\ source = DictLines
    /\ lexicon = [wordlist |-> wordlist, trie |-> trie]

TotalNext ==
    \/ KeepDefaults
    \/ \E def \in RulesetDefs : ApplyRuleset(def)
    \/ \E input \in TotalRacks : Solve(input)
    \/ \E w0 \in TotalWords : FindPlacements(w0)

TotalSpec == TotalInit /\ [][TotalNext]_vars

\* the tiles of the placement m can be taken from the rack r, a blank for
\* every lowercase letter
TakenFrom(r, m) ==
    /\ \A l \in Upper : Count(m.tiles, l) <= Count(r, l)
    /\ Cardinality({ i \in 1..Len(m.tiles) : m.tiles[i] \in Lower }) <= Count(r, Star)

\* m is a legal placement for the rack r on the board b
LegalMove(b, r, m) ==
    /\ Len(m.tiles) >= 1
    /\ TakenFrom(r, m)
    /\ Legal(b, m)
    /\ IF At(b, <<Center, Center>>) = 0
       THEN <<Center, Center>> \in NewCells(b, m)
       ELSE \E cell \in NewCells(b, m) : Touches(b, cell)

\* p is a legal placement of the word w on the board b
LegalPlacement(b, w, p) == \E s \in StartsOf(b, w, p) : LegalSpot(b, w, s, p.dir)

\* C20: the requests are total: on every board, for every rack of 0 to 7
\* tiles and every word, the generator and the search for a word end
\* without an index beyond the board in checkContiguous and scoreMove (the
\* loops of getPlaySpace and scoreWord test their index), and the list they
\* return is empty when the rack or the word has no legal placement
C20_RequestsAreTotal ==
    fresh =>
        /\ ~fault
        /\ moves # <<>> => \E m \in Returned : LegalMove(board, rack, m)
        /\ placements # <<>> => \E p \in Offered : LegalPlacement(board, ToUpper(oppWord), p)

\* a request answered with a placement that lays a tile on the last row or
\* the last column
C20_Witness ==
    /\ fresh
    /\ ~fault
    /\ \E m \in Returned \cup Offered :
          \E cell \in NewCells(board, m) : cell[1] = Last \/ cell[2] = Last

(***************************************************************************)
(* Rack characters that are neither a letter nor the blank symbol.         *)
(***************************************************************************)
\* the positions of a parsed rack that hold neither 'A'..'Z' nor '*'
InvalidAt(r) == { i \in 1..Len(r) : r[i] \notin Upper \cup {Star} }

\* the rack with a blank in the place of every such tile
AsBlanks(r) == [i \in 1..Len(r) |-> IF i \in InvalidAt(r) THEN Star ELSE r[i]]

\* C21: a rack character outside A..Z and '*' causes no runtime fault and is
\* treated as a blank: the request is answered without an index out of
\* range, with the placements (letters in lowercase where the tile stands
\* for them, scores) of the same rack with '*' in the place of the character
C21_InvalidRackCharIsABlank ==
    (fresh /\ InvalidAt(rack) # {}) =>
        /\ ~fault
        /\ \A b \in { board }, rs \in { Rules }, p \in { AsBlanks(rack) } :
              Placements(Enumerate(b, rs, p).moves) = Placements(found)

(***************************************************************************)
(* The tile that plays a letter when a normal tile and a blank both can.   *)
(***************************************************************************)
\* the tiles of the rack r that are left after the tiles of the sequence
\* taken were consumed include a normal tile of the letter l
NormalLeft(r, taken, l) == Count(r, l) > Count(taken, l)

\* C22: at an empty cell, a letter that a normal tile and a blank of the
\* working rack can both produce is played from the normal tile, whatever
\* the order of the rack: no placement of the enumeration holds a
\* lowercase letter at a position where the working rack (the rack without
\* the tiles consumed for the letters before it) still held a normal tile
\* of that letter
C22_NormalTileBeforeBlank ==
    fresh =>
        \A i \in 1..Len(found) : \A k \in 1..Len(found[i].tiles) :
            found[i].tiles[k] \in Lower =>
                ~NormalLeft(rack, SubSeq(found[i].used, 1, k - 1), found[i].tiles[k] - CaseBit)

(***************************************************************************)
(* The tiles of a placement and the tiles of the rack.                     *)
(***************************************************************************)
\* C23: every returned placement is playable from the rack: it holds no
\* more uppercase letters L than the rack holds tiles L, no more lowercase
\* letters than the rack holds blanks, and between 1 and len(rack) letters
C23_PlacementsArePlayableFromTheRack ==
    fresh =>
        \A m \in Returned \cup FoundSet :
            /\ \A l \in Upper : Count(m.tiles, l) <= Count(rack, l)
            /\ Cardinality({ i \in 1..Len(m.tiles) : m.tiles[i] \in Lower }) <= Count(rack, Star)
            /\ Len(m.tiles) >= 1
            /\ Len(m.tiles) <= Len(rack)

\* a returned placement that takes the whole rack, a blank and a normal
\* tile of it
C23_Witness ==
    /\ fresh
    /\ \E m \in Returned :
          /\ Len(m.tiles) = Len(rack)
          /\ \E i, j \in 1..Len(m.tiles) : m.tiles[i] \in Lower /\ m.tiles[j] \in Upper

(***************************************************************************)
(* Tiles of the board that a word runs over.                               *)
(***************************************************************************)
\* the word w laid from s along dir runs over a tile of the board
Reuses(b, w, s, dir) == \E cell \in Under(w, s, dir) : At(b, cell) # 0

\* C24: in the search for a word, a cell under the word that holds a tile
\* bearing the word's letter, a normal tile or a blank assigned that letter,
\* counts as reuse and does not reject the candidate: every start cell and
\* direction from which the word runs over such tiles only and keeps the
\* other rules gives a returned placement
C24_MatchingTilesAreReused ==
    fresh =>
        \A sd \in LegalSpots(board, ToUpper(oppWord)) :
            Reuses(board, ToUpper(oppWord), sd[1], sd[2]) =>
                \E p \in Offered : Shape(p) = Laying(board, ToUpper(oppWord), sd[1], sd[2])

(***************************************************************************)
(* The play space of an anchor, read off the board.                        *)
(***************************************************************************)
\* the numbers of steps from cell against dir (with dir) over which the
\* line holds tiles only
Before(b, cell, dir) ==
    { k \in 1..Last : \A j \in 1..k :
          Ahead(cell, dir, 0 - j) \in Cells /\ At(b, Ahead(cell, dir, 0 - j)) # 0 }
Behind(b, cell, dir) ==
    { k \in 1..Last : \A j \in 1..k :
          Ahead(cell, dir, j) \in Cells /\ At(b, Ahead(cell, dir, j)) # 0 }

\* the line through the empty cell from the first tile of the run before it
\* to the last tile of the run behind it, the cell itself as 0
Through(b, cell, dir) ==
    LET lo == Cardinality(Before(b, cell, dir))
        hi == Cardinality(Behind(b, cell, dir))
    IN  [i \in 1..(lo + hi + 1) |-> At(b, Ahead(cell, dir, i - 1 - lo))]

\* what getPlaySpace is to return for the empty cell and the direction
PlaySpaceOf(b, cell, dir) ==
    LET off == Cardinality(Before(b, cell, dir))
        start == Ahead(cell, dir, 0 - off)
        len == Cardinality(Track(start, dir))
        at(i) == Ahead(start, dir, i - 1)
        o == Other(dir)
    IN  [ startX |-> start[1], startY |-> start[2],
          play |-> [i \in 1..len |-> At(b, at(i))],
          crossPlays |-> [i \in 1..len |->
              IF At(b, at(i)) = 0 /\ (Before(b, at(i), o) # {} \/ Behind(b, at(i), o) # {})
              THEN Through(b, at(i), o) ELSE <<>>],
          room |-> Cardinality({ i \in 1..len : At(b, at(i)) = 0 }) ]

\* C25: for every empty cell and direction getPlaySpace returns the start
\* of the run of tiles that ends right before the cell (the cell itself
\* when there is none), as play the cells from the start to the edge (tiles
\* up to the cell, 0 at the cell), as cross a sequence of the same length
\* whose entry is present exactly for an empty cell with a tile next to it
\* across the direction and is then the whole run across with one 0 at the
\* place of the cell, and as room the number of 0 entries of play
C25_PlaySpaceOfAnAnchor ==
    \A cell \in Cells, dir \in Dirs :
        At(board, cell) = 0 =>
            \A ps \in { getPlaySpace(board, cell[1], cell[2], dir) } :
                /\ ps = PlaySpaceOf(board, cell, dir)
                /\ Len(ps.crossPlays) = Len(ps.play)
                /\ \A off \in { Cardinality(Before(board, cell, dir)) } :
                      /\ \A i \in 1..off : ps.play[i] # 0
                      /\ ps.play[off + 1] = 0
                /\ \A i \in 1..Len(ps.crossPlays) :
                      ps.crossPlays[i] # <<>> =>
                          Cardinality({ j \in 1..Len(ps.crossPlays[i]) : ps.crossPlays[i][j] = 0 }) = 1

\* a request on a board where an anchor has a tile right before it, and
\* an empty cell of a line has a cross run of two tiles that ends on the edge
C25_Witness ==
    /\ fresh
    /\ \E cell \in Cells, dir \in Dirs :
          /\ At(board, cell) = 0
          /\ Cardinality(Before(board, cell, dir)) >= 1
    /\ \E cell \in Cells, dir \in Dirs :
          /\ At(board, cell) = 0
          /\ \E i \in 1..Len(getPlaySpace(board, cell[1], cell[2], dir).crossPlays) :
                /\ Len(getPlaySpace(board, cell[1], cell[2], dir).crossPlays[i]) >= 3
                /\ Ahead(cell, dir, i - 1)[1] = Last - 2

(***************************************************************************)
(* loadRuleset with the definitions a rulesets.json may hold.              *)
(***************************************************************************)
\* StandardDef with keys of one letter only
PlainDef == [StandardDef EXCEPT !.LetterPoints = { e \in @ : Len(e[1]) = 1 }]

\* a ruleset without a bonus for playing out the rack
NoBonusDef == [PlainDef EXCEPT !.BingoBonus = 0]

\* a ruleset whose letter_points has the keys "A" and "a"
BothCasesDef == [PlainDef EXCEPT !.LetterPoints = @ \cup { <<<<97>>, 2>> }]

RuleDefs == RulesetDefs \cup { PlainDef, NoBonusDef, BothCasesDef }

RuleBoards == { EmptyBoard, RowOf(7, 7, <<84>>) }

RuleInit ==
    /\ Idle
    /\ board \in RuleBoards
    /\ prev = board
    /\ source = DictLines
    /\ lexicon = [wordlist |-> wordlist, trie |-> trie]

RuleNext ==
    \/ KeepDefaults
    \/ \E def \in RuleDefs : ApplyRuleset(def)
    \/ \E input \in RackInputs : Solve(input)

RuleSpec == RuleInit /\ [][RuleNext]_vars

\* every key of letter_points is one letter, every position is on the board
WellFormed(def) ==
    /\ \A e \in def.LetterPoints : Len(e[1]) = 1 /\ e[1][1] \in Upper \cup Lower
    /\ \A pos \in def.TripleWord \cup def.DoubleWord \cup def.TripleLetter \cup def.DoubleLetter :
          pos[1] \in Coord /\ pos[2] \in Coord

\* the values letter_points gives for the letter c under a key of either case
ValuesFor(def, c) == { e[2] : e \in { k \in def.LetterPoints : ToUpper(k[1]) = <<c>> } }

\* the flat indices of the cells a list of positions names
Listed(positions) ==
    { i \in 0..(Size * Size - 1) : <<i % Size, i \div Size>> \in positions }

\* the bonus tables are those of the definition
BonusCellsOf(def) ==
    /\ tw = Listed(def.TripleWord)
    /\ dw = Listed(def.DoubleWord)
    /\ tl = Listed(def.TripleLetter)
    /\ dl = Listed(def.DoubleLetter)

\* the tables are the compiled-in ones
CompiledIn ==
    /\ bingoBonus = DefaultBingo
    /\ tilePoints = DefaultTilePoints
    /\ tw = DefaultTW /\ dw = DefaultDW /\ tl = DefaultTL /\ dl = DefaultDL

\* C26 as stated: after applyRuleset of a definition with single-letter keys
\* and positions on the board the bingo bonus is the definition's (0
\* included), every letter has the value of its key (0 without a key) and
\* the bonus tables hold the listed cells exactly; when loadRuleset applied
\* nothing the tables are the compiled-in ones
C26_TablesEqualTheDefinition ==
    booted =>
        IF ruleset = <<>> THEN CompiledIn
        ELSE WellFormed(ruleset[1]) =>
                /\ bingoBonus = ruleset[1].BingoBonus
                /\ \A c \in 0..254 :
                      /\ \A v \in ValuesFor(ruleset[1], c) : tilePoints[c] = v
                      /\ ValuesFor(ruleset[1], c) = {} => tilePoints[c] = 0
                /\ BonusCellsOf(ruleset[1])

\* C26 as amended: the bingo bonus is the definition's when that is greater
\* than 0 and stays the compiled-in one otherwise; every letter has a value
\* its key gives in either case (0 without a key); the bonus tables hold the
\* listed cells exactly; when loadRuleset applied nothing the tables are
\* the compiled-in ones
C26_TablesFollowTheDefinition ==
    booted =>
        IF ruleset = <<>> THEN CompiledIn
        ELSE WellFormed(ruleset[1]) =>
                /\ bingoBonus = (IF ruleset[1].BingoBonus > 0 THEN ruleset[1].BingoBonus
                                  ELSE DefaultBingo)
                /\ \A c \in 0..254 :
                      /\ ValuesFor(ruleset[1], c) # {} => tilePoints[c] \in ValuesFor(ruleset[1], c)
                      /\ ValuesFor(ruleset[1], c) = {} => tilePoints[c] = 0
                /\ BonusCellsOf(ruleset[1])

\* a request answered under a definition whose bingo bonus is 0, with a
\* placement that plays out a rack of seven tiles
C26_Witness ==
    /\ booted
    /\ ruleset # <<>>
    /\ WellFormed(ruleset[1])
    /\ ruleset[1].BingoBonus = 0
    /\ fresh
    /\ \E m \in Returned : Len(m.tiles) = BingoLen

(***************************************************************************)
(* The permutation-based findTopNMoves: the rack's permutations are cut    *)
(* to their prefixes, the prefixes are the keys of a map, and the tile     *)
(* sequences are listed by ranging over the map, whose order Go leaves     *)
(* open: every order of the keys is a possible one.                        *)
(***************************************************************************)
\* _permute: the permutations of the rack s
Arrangements(s) == { [i \in 1..Len(s) |-> s[p[i]]] : p \in Permutations(1..Len(s)) }

\* "subsets[perm[:i]] = struct{}{}": the keys of the map
PrefixKeys(s) == { SubSeq(perm, 1, i) : perm \in Arrangements(s), i \in 1..Len(s) }

\* "for key := range subsets": the orders in which the keys can come
KeyOrders(s) ==
    { ord \in [1..Cardinality(PrefixKeys(s)) -> PrefixKeys(s)] :
          \A i, j \in 1..Cardinality(PrefixKeys(s)) : ord[i] = ord[j] => i = j }

RECURSIVE expandWildcards(_), ExpandFrom(_, _, _)
\* "for c := byte('a'); c <= 'z'; c++" on the first '*' of the key, at wi
ExpandFrom(key, wi, c) ==
    IF c > ChZ + CaseBit THEN <<>>
    ELSE expandWildcards([key EXCEPT ![wi] = c]) \o ExpandFrom(key, wi, c + 1)

\* expandWildcards: each '*' becomes every letter a..z, in order
expandWildcards(key) ==
    IF \A i \in 1..Len(key) : key[i] # Star THEN <<key>>
    ELSE ExpandFrom(key, CHOOSE i \in 1..Len(key) :
                             key[i] = Star /\ \A j \in 1..(i - 1) : key[j] # Star,
                    ChA + CaseBit)

RECURSIVE KeysFrom(_, _)
\* "keys = append(keys, expandWildcards(key)...)" for the keys in the order ord
KeysFrom(ord, i) ==
    IF i > Len(ord) THEN <<>> ELSE expandWildcards(ord[i]) \o KeysFrom(ord, i + 1)

\* permute(s) when the map is ranged over in the order ord
permute(ord) == KeysFrom(ord, 1)

RECURSIVE TilesetWalk(_, _, _, _, _)
\* "for i, v := range play" of the tile-sequence loop: the tile sequence
\* fills the empty cells of play; FALSE on "continue TILESETLIST"
TilesetWalk(ps, tileset, i, j, f) ==
    IF i > Len(ps.play) THEN f \in wordlist
    ELSE IF ps.play[i] # 0 THEN TilesetWalk(ps, tileset, i + 1, j, FnvAdd(f, ps.play[i]))
    ELSE IF j = Len(tileset) THEN f \in wordlist
    ELSE IF /\ ps.crossPlays[i] # <<>>
            /\ CrossHash(NewFNV, ps.crossPlays[i], tileset[j + 1], 1) \notin wordlist
         THEN FALSE
    ELSE TilesetWalk(ps, tileset, i + 1, j + 1, FnvAdd(f, tileset[j + 1]))

\* the tile sequences that the loops accept at the anchor (x, y) along dir,
\* each with its score: the body of the loops without the order of the list
AcceptedAt(b, rs, x, y, dir, rackLen, tilesets) ==
    LET ps == getPlaySpace(b, x, y, dir)
        room == IF ps.room > rackLen THEN rackLen ELSE ps.room
        counts == { tc \in 1..room : /\ checkCenterPlayed(b, x, y, tc, dir)
                                       /\ checkContiguous(b, x, y, tc, dir) }
    IN  { [x |-> x, y |-> y, dir |-> dir, tiles |-> t,
           score |-> scoreMove(b, rs, x, y, t, dir)
                     + (IF rackLen = BingoLen /\ Len(t) = BingoLen THEN rs.bingoBonus ELSE 0)] :
          t \in { ts \in tilesets : Len(ts) \in counts /\ TilesetWalk(ps, ts, 1, 0, NewFNV) } }

\* the accepted tile sequences of all anchors and directions
Accepted(b, rs, r) ==
    LET tilesets == UNION { { expandWildcards(k)[i] : i \in 1..Len(expandWildcards(k)) } :
                            k \in PrefixKeys(r) }
    IN  UNION { AcceptedAt(b, rs, cell[1], cell[2], dir, Len(r), tilesets) :
                cell \in { c \in Cells : At(b, c) = 0 }, dir \in Dirs }

\* the place of an accepted tile sequence in the loops over x, y, the
\* directions (horizontal first) and the tile counts
SlotOf(m) == <<m.x, m.y, IF m.dir = DIR_HORIZ THEN 0 ELSE 1, Len(m.tiles)>>

SlotBefore(a, b) ==
    \E k \in 1..4 : a[k] < b[k] /\ \A j \in 1..(k - 1) : a[j] = b[j]

RECURSIVE SlotsInOrder(_)
SlotsInOrder(slots) ==
    IF slots = {} THEN <<>>
    ELSE LET first == CHOOSE a \in slots : \A b \in slots \ {a} : SlotBefore(a, b)
         IN  <<first>> \o SlotsInOrder(slots \ {first})

RECURSIVE TilesetLoop(_, _, _, _, _)
\* "for _, tileset := range tilesets" in one slot: the accepted tile
\* sequences are appended unless their key was seen
TilesetLoop(st, cands, slot, tilesets, i) ==
    IF Evaluated(st.seen) /\ i > Len(tilesets) THEN st
    ELSE LET hit == { m \in cands : SlotOf(m) = slot /\ m.tiles = tilesets[i] }
         IN  IF hit = {} THEN TilesetLoop(st, cands, slot, tilesets, i + 1)
             ELSE LET m == CHOOSE h \in hit : TRUE
                      key == MoveKey(m.x, m.y, m.dir, m.tiles)
                  IN  IF key \in st.seen THEN TilesetLoop(st, cands, slot, tilesets, i + 1)
                      ELSE TilesetLoop([seen |-> st.seen \cup {key}, moves |-> Append(st.moves, m)],
                                       cands, slot, tilesets, i + 1)

RECURSIVE SlotLoop(_, _, _, _, _)
SlotLoop(st, cands, slots, tilesets, k) ==
    IF Evaluated(st.seen) /\ k > Len(slots) THEN st
    ELSE SlotLoop(TilesetLoop(st, cands, slots[k], tilesets, 1), cands, slots, tilesets, k + 1)

\* the list of moves before the sort, for the accepted tile sequences cands
\* and the tile sequences in the order of permute
permuteMoves(cands, tilesets) ==
    SlotLoop([seen |-> {}, moves |-> <<>>], cands,
             SlotsInOrder({ SlotOf(m) : m \in cands }),
             SelectSeq(tilesets, LAMBDA t : \E m \in cands : m.tiles = t), 1).moves

PermRacks ==
    { <<116, 97>>,      \* ta
      <<42, 65>>,       \* *A
      <<42>> }          \* *

PermBoards == { EmptyBoard, RowOf(7, 7, <<84>>), RowOf(6, 7, <<84>>), RowOf(7, 7, <<101>>) }

PermInit ==
    /\ Idle
    /\ board \in PermBoards
    /\ prev = board
    /\ source = DictLines
    /\ lexicon = [wordlist |-> wordlist, trie |-> trie]

\* the solver's request answered by the permutation-based findTopNMoves
SolveByPermutation(input) ==
    /\ booted
    /\ ~fresh
    /\ rack' = parseRack(input)
    /\ \E cands \in { Accepted(board, Rules, parseRack(input)) } :
          \E ord \in KeyOrders(parseRack(input)) :
             \E list \in { permuteMoves(cands, permute(ord)) } :
                /\ found' = list
                /\ \E n \in NChoices : moves' = TopN(SortMoves(list), n) /\ topn' = n
    /\ work' = [rack |-> parseRack(input), restored |-> TRUE]
    /\ fault' = FALSE
    /\ fresh' = TRUE
    /\ prev' = board
    /\ last' = NoMove
    /\ UNCHANGED <<share, game, ruleset, oppWord, placements, source, lexicon, board, steps, booted,
                   tilePoints, bingoBonus, tw, dw, tl, dl>>

PermNext ==
    \/ KeepDefaults
    \/ \E def \in RulesetDefs : ApplyRuleset(def)
    \/ \E input \in PermRacks : SolveByPermutation(input)

PermSpec == PermInit /\ [][PermNext]_vars

\* C27: the result of the permutation-based findTopNMoves does not depend
\* on the order in which permute lists the tile sequences: for the board and
\* rack of the request, every order of the keys gives the placements of the
\* answer, letter case and scores included, and (for the lists of up to
\* twelve moves, which sort.Slice sorts by insertion) the same list in the
\* same order
C27_ResultIndependentOfPermuteOrder ==
    fresh =>
        \A cands \in { Accepted(board, Rules, rack) } :
            \A ord \in KeyOrders(rack) :
                \A list \in { permuteMoves(cands, permute(ord)) } :
                    /\ Placements(list) = Placements(found)
                    /\ Len(found) <= 12 => TopN(SortMoves(list), topn) = moves

(***************************************************************************)
(* The AI game: NewBoard, DoTurn, runGame.                                 *)
(***************************************************************************)
\* the tiles of a game of the model: the first BagSize tiles of a shuffle
\* (the program shuffles the 100 tiles of startTiles)
BagSize == 17

RackSize == 7

\* the first seven tiles of a shuffle, the next seven, and the tiles behind
FirstRacks ==
    { <<84, 65, 66, 67, 68, 68, 75>>,     \* TABCDDK
      <<66, 66, 67, 67, 68, 68, 68>>,     \* BBCCDDD
      <<42, 65, 66, 67, 68, 68, 75>> }    \* *ABCDDK
SecondRacks ==
    { <<69, 71, 71, 72, 72, 73, 74>>,     \* EGGHHIJ
      <<70, 70, 71, 71, 71, 72, 72>>,     \* FFGGGHH
      <<84, 83, 76, 76, 77, 77, 78>> }    \* TSLLMMN
Tails ==
    { <<69, 84, 83, 65, 79, 79, 85>>,     \* ETSAOOU
      <<65, 69, 84, 73, 79, 85, 83>> }    \* AETIOUS

\* the shuffles NewBoard may produce, cut to BagSize tiles
Shuffles ==
    { r0 \o r1 \o SubSeq(t, 1, BagSize - 2 * RackSize) :
          r0 \in FirstRacks, r1 \in SecondRacks, t \in Tails }

\* bytes.IndexRune(rack, c): the 0-based index of the first c, or -1
IndexRune(r, c) ==
    IF \E i \in 1..Len(r) : r[i] = c
    THEN (CHOOSE i \in 1..Len(r) : r[i] = c /\ \A j \in 1..(i - 1) : r[j] # c) - 1
    ELSE -1

RECURSIVE RemoveTiles(_, _, _)
\* "for _, c := range m.tiles": a lowercase letter takes a '*' from the
\* rack, any other its own tile; an index of -1 ends in a slice out of range
RemoveTiles(r, tiles, k) ==
    IF k > Len(tiles) THEN [rack |-> r, fault |-> FALSE]
    ELSE LET c == IF tiles[k] \in Lower THEN Star ELSE tiles[k]
             idx == IndexRune(r, c)
         IN  IF idx < 0 THEN [rack |-> r, fault |-> TRUE]
             ELSE RemoveTiles(SubSeq(r, 1, idx) \o SubSeq(r, idx + 2, Len(r)), tiles, k + 1)

RECURSIVE DrawKeepsBag(_, _)
\* the refill loop without "b.tiles = b.tiles[1:]"
DrawKeepsBag(r, bag) ==
    IF Len(r) < RackSize /\ Len(bag) > 0
    THEN DrawKeepsBag(Append(r, bag[1]), bag)
    ELSE [rack |-> r, bag |-> bag]

RECURSIVE Draw(_, _)
\* "for len(b.ptiles[player]) < 7 && len(b.tiles) > 0": the refill
Draw(r, bag) ==
    IF Len(r) < RackSize /\ Len(bag) > 0
    THEN Draw(Append(r, bag[1]), Tail(bag))
    ELSE [rack |-> r, bag |-> bag]

\* moves[0] after sort.Slice: the library sorts up to twelve moves by
\* insertion; of a longer list it may put any move of the highest score first
TopMoves(list) ==
    IF Len(list) <= 12 THEN { SortMoves(list)[1] }
    ELSE { list[i] : i \in { k \in 1..Len(list) : \A j \in 1..Len(list) : list[k].score >= list[j].score } }

\* the part of DoTurn behind the sort: the move m is played, its tiles
\* leave the rack, the rack is refilled and the score is added
PlayTurn(b, g, player, m, endFault) ==
    { [board |-> play(b, m.x, m.y, m.tiles, m.dir),
       bag |-> drawn.bag,
       ptiles |-> [g.ptiles EXCEPT ![player + 1] = drawn.rack],
       pscore |-> [g.pscore EXCEPT ![player + 1] = @ + m.score],
       moved |-> TRUE,
       move |-> [x |-> m.x, y |-> m.y, dir |-> m.dir, tiles |-> m.tiles,
                 score |-> m.score],
       fault |-> endFault \/ left.fault] :
         <<left, drawn>> \in UNION { { <<l, d>> : d \in {Draw(l.rack, g.bag)} } :
                                       l \in {RemoveTiles(g.ptiles[player + 1], m.tiles, 1)} } }

\* DoTurn(player): the outcomes of the turn on the board b and the game g
\* (fields: bag, ptiles, pscore); moved tells a move was played
DoTurn(b, rs, g, player) ==
    UNION { IF end.moves = <<>>
            THEN { [board |-> b, bag |-> g.bag, ptiles |-> g.ptiles, pscore |-> g.pscore,
                    moved |-> FALSE, move |-> NoMove, fault |-> end.fault] }
            ELSE UNION { PlayTurn(b, g, player, m, end.fault) : m \in TopMoves(end.moves) } :
            end \in {Enumerate(b, rs, g.ptiles[player + 1])} }

\* NewBoard in runGame: empty board, shuffled tiles, seven tiles to each
\* player; then the loop "for !bagDepleted" starts with player 0
NewGame(sh) ==
    [ phase |-> "loop", start |-> sh,
      ptiles |-> << SubSeq(sh, 1, RackSize), SubSeq(sh, RackSize + 1, 2 * RackSize) >>,
      bag |-> SubSeq(sh, 2 * RackSize + 1, Len(sh)),
      pscore |-> <<0, 0>>, before |-> <<0, 0>>, p |-> 0, mover |-> -1,
      bagDepleted |-> FALSE, finalPlayer |-> -1, i |-> 0, turns |-> 0, moved |-> FALSE ]

GameInit ==
    /\ rack = <<>> /\ found = <<>> /\ moves = <<>> /\ topn = 0 /\ fresh = FALSE
    /\ steps = 0 /\ booted = FALSE
    /\ tilePoints = DefaultTilePoints /\ bingoBonus = DefaultBingo
    /\ tw = DefaultTW /\ dw = DefaultDW /\ tl = DefaultTL /\ dl = DefaultDL
    /\ oppWord = <<>> /\ placements = <<>>
    /\ work = [rack |-> <<>>, restored |-> TRUE]
    /\ last = NoMove /\ fault = FALSE /\ ruleset = <<>>
    /\ board = EmptyBoard
    /\ prev = EmptyBoard
    /\ source = DictLines
    /\ lexicon = [wordlist |-> wordlist, trie |-> trie]
    /\ game \in { NewGame(sh) : sh \in Shuffles }
    /\ share = NoShare

\* the player of the next call of DoTurn in runGame: p in the loop
\* "for !bagDepleted", (finalPlayer + 1 + i) % 2 in the two final turns
Mover == IF game.phase = "loop" THEN game.p ELSE (game.finalPlayer + 1 + game.i) % 2

\* behind a turn of "for p := 0; p < 2; p++" inside "for !bagDepleted":
\* an empty bag ends both loops and names the final player
LoopTurn(out) ==
    /\ game.phase = "loop"
    /\ game' = [game EXCEPT !.bag = out.bag, !.ptiles = out.ptiles,
                             !.pscore = out.pscore, !.before = game.pscore,
                             !.mover = game.p, !.moved = out.moved,
                             !.turns = IF @ < 2 THEN @ + 1 ELSE @,
                             !.phase = IF Len(out.bag) = 0 THEN "final" ELSE "loop",
                             !.bagDepleted = Len(out.bag) = 0,
                             !.finalPlayer = IF Len(out.bag) = 0 THEN game.p ELSE @,
                             !.p = IF Len(out.bag) = 0 THEN @ ELSE (@ + 1) % 2]

\* behind a turn of "for i := 0; i < 2; i++ { b.DoTurn((finalPlayer + 1 + i) % 2) }"
FinalTurn(out) ==
    /\ game.phase = "final"
    /\ game' = [game EXCEPT !.bag = out.bag, !.ptiles = out.ptiles,
                             !.pscore = out.pscore, !.before = game.pscore,
                             !.mover = (game.finalPlayer + 1 + game.i) % 2,
                             !.moved = out.moved,
                             !.i = @ + 1,
                             !.phase = IF game.i + 1 = 2 THEN "done" ELSE "final"]

\* runGame: the next call of DoTurn and the loop control behind it
RunGameTurn ==
    /\ booted
    /\ game.phase \in {"loop", "final"}
    /\ \E b \in {board}, rs \in {Rules}, g \in {game}, player \in {Mover} :
       \E out \in DoTurn(b, rs, g, player) :
          /\ board' = out.board
          /\ prev' = board
          /\ last' = out.move
          /\ fault' = out.fault
          /\ \/ LoopTurn(out)
             \/ FinalTurn(out)
    /\ UNCHANGED <<share, ruleset, oppWord, placements, work, source, lexicon, rack, found, moves,
                   topn, fresh, steps, booted, tilePoints, bingoBonus, tw, dw, tl, dl>>

GameNext ==
    \/ KeepDefaults
    \/ \E def \in RulesetDefs : ApplyRuleset(def)
    \/ RunGameTurn

GameSpec == GameInit /\ [][GameNext]_vars

\* a call of DoTurn is pending: RunGameTurn is enabled exactly then, as
\* DoTurn always has an outcome, and it changes game.p or game.i
Playing == booted /\ game.phase \in {"loop", "final"}

\* the program loads its rules and runGame runs on: a turn that can be
\* taken is taken.  The second condition is WF_vars(RunGameTurn) written
\* out, with Playing for ENABLED <<RunGameTurn>>_vars
GameLive ==
    /\ GameSpec
    /\ WF_vars(KeepDefaults)
    /\ ([]<>(~Playing) \/ []<><<RunGameTurn>>_vars)

\* C28: runGame terminates: from every shuffle the loop of turns depletes
\* the bag, each player then gets one more turn, and the game ends, also
\* when a player has no legal move and passes
C28_GameTerminates == <>(game.phase = "done")

\* the tile a board cell was filled with: a lowercase letter is a blank
TileOf(c) == IF c \in Lower THEN Star ELSE c

\* how many tiles v lie on the board b
OnBoard(b, v) ==
    Cardinality({ xy \in (0..Last) \X (0..Last) :
                    b[xy[1]][xy[2]] # 0 /\ TileOf(b[xy[1]][xy[2]]) = v })

\* the kinds of tiles of a shuffle
TileKinds(sh) == { sh[k] : k \in 1..Len(sh) }

\* C29: after NewBoard and after every DoTurn the tiles on the board (a
\* lowercase tile counting as a blank), the two racks and the bag together
\* are exactly the shuffled tiles; a rack holds at most seven tiles, and
\* fewer than seven only when the bag is empty; the score of the player
\* who moved grew by the score of the move played, and no other score changed
C29_TilesAreConserved ==
    game.phase # "none" =>
        /\ ~fault
        /\ \A v \in TileKinds(game.start) \cup {Star} \cup (ChA..ChZ) :
              OnBoard(board, v) + Count(game.ptiles[1], v) + Count(game.ptiles[2], v)
                  + Count(game.bag, v) = Count(game.start, v)
        /\ \A pl \in 1..2 :
              /\ Len(game.ptiles[pl]) <= RackSize
              /\ Len(game.ptiles[pl]) < RackSize => Len(game.bag) = 0
              /\ game.pscore[pl] = game.before[pl] +
                     (IF game.moved /\ game.mover + 1 = pl THEN last.score ELSE 0)

\* the game is over, a blank lies on the board, a player holds fewer than
\* seven tiles and both players have scored
C29_Witness ==
    /\ game.phase = "done"
    /\ \E x \in 0..Last, y \in 0..Last : board[x][y] \in Lower
    /\ \E pl \in 1..2 : Len(game.ptiles[pl]) < RackSize
    /\ game.pscore[1] > 0 /\ game.pscore[2] > 0

(***************************************************************************)
(* Sharing a board: handleShareBoardDB, GetShareToken, SetShareToken and   *)
(* the lookup GetBoardByShareToken.  Every request is served by a          *)
(* goroutine of its own; a statement of the database is one step.          *)
(***************************************************************************)
\* the share requests that may be in flight for the board
MaxRequests == 3

Requests == 1..MaxRequests

\* the owner of the board, another user, and "" of a server without login
Users == {"owner", "other", ""}

\* share_token NULL, and the nil *string of GetShareToken
Null == 0

\* generateShareToken: sixteen random bytes; the k-th token made is k, so
\* that no two tokens made are equal
generateShareToken(made) == made + 1

\* "WHERE id = $1 AND user_id = $2", or "WHERE id = $1" without a user:
\* whether the row of the board is selected
RowMatches(row, userID) == userID = "" \/ row.user = userID

\* GetBoardByShareToken: the row "WHERE share_token = $1", if any
GetBoardByShareToken(row, token) == IF row.token = token THEN {row} ELSE {}

\* the board's row without a token and no request made
ShareInit ==
    /\ rack = <<>> /\ found = <<>> /\ moves = <<>> /\ topn = 0 /\ fresh = FALSE
    /\ steps = 0 /\ booted = FALSE
    /\ tilePoints = DefaultTilePoints /\ bingoBonus = DefaultBingo
    /\ tw = DefaultTW /\ dw = DefaultDW /\ tl = DefaultTL /\ dl = DefaultDL
    /\ oppWord = <<>> /\ placements = <<>>
    /\ work = [rack |-> <<>>, restored |-> TRUE]
    /\ last = NoMove /\ fault = FALSE /\ ruleset = <<>>
    /\ board = EmptyBoard
    /\ prev = EmptyBoard
    /\ source = DictLines
    /\ lexicon = [wordlist |-> wordlist, trie |-> trie]
    /\ game = NoGame
    /\ share = [ row |-> [user |-> "owner", token |-> Null],
                 pc |-> [r \in Requests |-> "idle"],
                 userID |-> [r \in Requests |-> ""],
                 status |-> [r \in Requests |-> 0],
                 shareToken |-> [r \in Requests |-> Null],
                 made |-> 0,
                 looked |-> Null, lookup |-> 0 ]

ShareUnchanged ==
    UNCHANGED <<board, rack, found, moves, topn, fresh, steps, booted,
                tilePoints, bingoBonus, tw, dw, tl, dl, source, lexicon,
                oppWord, placements, work, prev, last, fault, ruleset, game>>

\* handleShareBoardDB up to the call of GetShareToken: a POST of the user
ShareRequest(r, userID) ==
    /\ share.pc[r] = "idle"
    /\ share' = [share EXCEPT !.pc[r] = "get", !.userID[r] = userID]
    /\ ShareUnchanged

\* GetShareToken and the two returns behind it: 404 without a row, 200 with
\* the token of the row if it has one; else the handler goes on
GetShareToken(r) ==
    /\ share.pc[r] = "get"
    /\ share' = IF ~RowMatches(share.row, share.userID[r])
                THEN [share EXCEPT !.pc[r] = "done", !.status[r] = 404]
                ELSE IF share.row.token # Null
                THEN [share EXCEPT !.pc[r] = "done", !.status[r] = 200,
                                   !.shareToken[r] = share.row.token]
                ELSE [share EXCEPT !.pc[r] = "set"]
    /\ ShareUnchanged

\* SetShareToken and the return behind it: a new token, the UPDATE of the
\* row, 200 with the new token (500 when no row was updated)
SetShareToken(r) ==
    /\ share.pc[r] = "set"
    /\ share' = IF ~RowMatches(share.row, share.userID[r])
                THEN [share EXCEPT !.pc[r] = "done", !.status[r] = 500,
                                   !.made = generateShareToken(@)]
                ELSE [share EXCEPT !.pc[r] = "done", !.status[r] = 200,
                                   !.row.token = generateShareToken(share.made),
                                   !.shareToken[r] = generateShareToken(share.made),
                                   !.made = generateShareToken(@)]
    /\ ShareUnchanged

\* handleGetSharedBoardDB with a token a share request has returned
GetSharedBoard(r) ==
    /\ share.pc[r] = "done"
    /\ share.status[r] = 200
    /\ share' = [share EXCEPT !.looked = share.shareToken[r],
                              !.lookup = IF GetBoardByShareToken(share.row, share.shareToken[r]) = {}
                                         THEN 404 ELSE 200]
    /\ ShareUnchanged

ShareNext ==
    \/ \E r \in Requests, userID \in Users : ShareRequest(r, userID)
    \/ \E r \in Requests : GetShareToken(r)
    \/ \E r \in Requests : SetShareToken(r)
    \/ \E r \in Requests : GetSharedBoard(r)

ShareSpec == ShareInit /\ [][ShareNext]_vars

\* C30: sharing is idempotent under concurrency: in every interleaving of
\* share requests for one board all the requests answered with a token got
\* the same token, and every token handed out still finds the board
C30_ShareIsIdempotent ==
    /\ \A r, q \in Requests :
          (share.pc[r] = "done" /\ share.status[r] = 200 /\
           share.pc[q] = "done" /\ share.status[q] = 200)
              => share.shareToken[r] = share.shareToken[q]
    /\ \A r \in Requests :
          (share.pc[r] = "done" /\ share.status[r] = 200)
              => GetBoardByShareToken(share.row, share.shareToken[r]) # {}

==========================================================================
